---- MODULE Spec2Model ----
(***************************************************************************)
(* Tile state machine and growth scheduler of the farming game:            *)
(* TileMap.tillTile / plantSeed / waterTile / harvestCrop / chopTree /     *)
(* updateCrops (src/src/game/InventorySystem.ts, class TileMap), driven by *)
(* the frame loop Game.gameLoop.                                           *)
(*                                                                         *)
(* Tiles are JavaScript objects: a tile is modelled as a record whose      *)
(* DOMAIN is exactly the set of properties the object carries, so that     *)
(* "undefined" is a missing field, as in the source.                       *)
(*                                                                         *)
(* growth is a JavaScript number.  It is modelled as an IEEE-754 double    *)
(* (53-bit significand, round to nearest, ties to even), because the       *)
(* harvest test growth >= 1 is exact and the sums growth + deltaTime*0.1   *)
(* are not.                                                                *)
(***************************************************************************)
EXTENDS Integers, Sequences, FiniteSets, TLC

(***************************************************************************)
(* Bounds of the model.                                                    *)
(***************************************************************************)
Width      == 4        \* tiles per row of the modelled grid
Height     == 1        \* rows of the modelled grid
StartTime  == 1        \* Date.now() when the map is constructed (ms)
MaxElapsed == 11000    \* frames stop once this much time (ms) has passed
MaxLongElapsed == 45000 \* the same, for the coarse-grained frames
MaxOps     == 4        \* tile operations per run
MaxDrops   == 3        \* createDrop calls per run of the item-drop registry
MaxDim     == 6        \* largest width / height handed to new TileMap
MaxGameElapsed == 500  \* game ticks stop once this much time (ms) has passed
MaxSoilElapsed == 60000 \* coarse frames of the run in which the player goes idle
GenWidth   == 4        \* width of the grid handed to the map generator
GenHeight  == 8        \* height of the grid handed to the map generator
StoneCount == 1        \* iterations of the loop of generateStones
TreeCount  == 3        \* iterations of the loop of generateTrees
GridRows   == 1        \* rows of the inventory grid (gridSize.rows)
GridCols   == 2        \* columns of the inventory grid (gridSize.cols)
MaxInvOps  == 4        \* calls on the inventory in the inventory harness
MaxWalk    == 2        \* calls of Player.update in the walking harness

\* frame lengths (ms) of the ticks of Game.update
GameDeltas == {125, 375}

\* frame lengths (ms) of the fine-grained and the coarse-grained frame loop
Deltas     == {1000, 5000}
LongDeltas == {15000, 30000}

(***************************************************************************)
(* JavaScript numbers: non-negative IEEE-754 doubles.                      *)
(* A natural number is a little-endian sequence of 15-bit limbs without a  *)
(* leading zero limb; a double is [m, e] with value m * 2^e, where m has   *)
(* exactly 53 bits, or FZero.                                              *)
(***************************************************************************)
LimbBits == 15
LimbBase == 2^LimbBits
MantBits == 53

RECURSIVE BigOf(_)
BigOf(n) == IF n = 0 THEN <<>> ELSE <<n % LimbBase>> \o BigOf(n \div LimbBase)

RECURSIVE BigTrim(_)
BigTrim(a) ==
    IF a # <<>> /\ a[Len(a)] = 0 THEN BigTrim(SubSeq(a, 1, Len(a) - 1)) ELSE a

RECURSIVE BigAddC(_, _, _)
BigAddC(a, b, c) ==
    IF a = <<>> /\ b = <<>> THEN (IF c = 0 THEN <<>> ELSE <<c>>)
    ELSE LET x == IF a = <<>> THEN 0 ELSE Head(a)
             y == IF b = <<>> THEN 0 ELSE Head(b)
             s == x + y + c
         IN  <<s % LimbBase>> \o BigAddC(IF a = <<>> THEN a ELSE Tail(a),
                                         IF b = <<>> THEN b ELSE Tail(b),
                                         s \div LimbBase)

BigAdd(a, b) == BigAddC(a, b, 0)

RECURSIVE BigMulSmallC(_, _, _)
BigMulSmallC(a, n, c) ==
    IF a = <<>> THEN (IF c = 0 THEN <<>> ELSE <<c>>)
    ELSE LET s == Head(a) * n + c
         IN  <<s % LimbBase>> \o BigMulSmallC(Tail(a), n, s \div LimbBase)

BigMulSmall(a, n) == IF n = 0 THEN <<>> ELSE BigMulSmallC(a, n, 0)

RECURSIVE BigMul(_, _)
BigMul(a, b) ==
    IF a = <<>> \/ b = <<>> THEN <<>>
    ELSE LET rest == BigMul(Tail(a), b)
         IN  BigAdd(BigMulSmall(b, Head(a)),
                    IF rest = <<>> THEN rest ELSE <<0>> \o rest)

\* a divided by n, 0 < n <= LimbBase, most significant limb first
RECURSIVE BigDivStep(_, _, _, _)
BigDivStep(a, i, n, acc) ==
    IF i = 0 THEN acc
    ELSE LET cur == acc.r * LimbBase + a[i]
         IN  BigDivStep(a, i - 1, n,
                        [q |-> <<cur \div n>> \o acc.q, r |-> cur % n])

BigDivSmall(a, n) ==
    LET d == BigDivStep(a, Len(a), n, [q |-> <<>>, r |-> 0])
    IN  [q |-> BigTrim(d.q), r |-> d.r]

RECURSIVE SmallBitLen(_)
SmallBitLen(n) == IF n = 0 THEN 0 ELSE 1 + SmallBitLen(n \div 2)

BigBitLen(a) ==
    IF a = <<>> THEN 0 ELSE (Len(a) - 1) * LimbBits + SmallBitLen(a[Len(a)])

RECURSIVE ZeroLimbs(_)
ZeroLimbs(k) == IF k <= 0 THEN <<>> ELSE <<0>> \o ZeroLimbs(k - 1)

BigShiftLeft(a, k) ==
    IF a = <<>> THEN a
    ELSE ZeroLimbs(k \div LimbBits) \o BigMulSmall(a, 2^(k % LimbBits))

\* [q |-> floor(a / 2^k), low |-> (a mod 2^k) # 0]
BigShiftRight(a, k) ==
    LET w    == k \div LimbBits
        kept == IF w >= Len(a) THEN <<>> ELSE SubSeq(a, w + 1, Len(a))
        d    == BigDivSmall(kept, 2^(k % LimbBits))
    IN  [q   |-> d.q,
         low |-> d.r # 0 \/ \E i \in 1..w : i <= Len(a) /\ a[i] # 0]

BigOdd(a) == a # <<>> /\ a[1] % 2 = 1

RECURSIVE BigLess(_, _, _)
BigLess(a, b, i) ==
    IF i = 0 THEN FALSE
    ELSE IF a[i] # b[i] THEN a[i] < b[i] ELSE BigLess(a, b, i - 1)

FZero == [m |-> <<>>, e |-> 0]

\* the double nearest to (M + f) * 2^e, where 0 <= f < 1 and sticky <=> f > 0
Round(M, e, sticky) ==
    IF M = <<>> THEN FZero
    ELSE LET L == BigBitLen(M) IN
      IF L <= MantBits
      THEN [m |-> BigShiftLeft(M, MantBits - L), e |-> e - (MantBits - L)]
      ELSE LET s  == L - MantBits
               t  == BigShiftRight(M, s - 1)
               q  == BigShiftRight(t.q, 1).q
               up == BigOdd(t.q) /\ (t.low \/ sticky \/ BigOdd(q))
               q1 == IF up THEN BigAdd(q, <<1>>) ELSE q
           IN  IF BigBitLen(q1) > MantBits
               THEN [m |-> BigShiftRight(q1, 1).q, e |-> e + s + 1]
               ELSE [m |-> q1, e |-> e + s]

FromInt(n) == Round(BigOf(n), 0, FALSE)

\* x / n for an integer n, 0 < n < 2^10
FDivInt(x, n) ==
    IF x.m = <<>> THEN FZero
    ELSE LET d == BigDivSmall(<<0>> \o x.m, n)
         IN  Round(d.q, x.e - LimbBits, d.r # 0)

FMul(x, y) ==
    IF x.m = <<>> \/ y.m = <<>> THEN FZero
    ELSE Round(BigMul(x.m, y.m), x.e + y.e, FALSE)

FAdd(x, y) ==
    IF x.m = <<>> THEN y
    ELSE IF y.m = <<>> THEN x
    ELSE LET e == IF x.e < y.e THEN x.e ELSE y.e
         IN  Round(BigAdd(BigShiftLeft(x.m, x.e - e),
                          BigShiftLeft(y.m, y.e - e)), e, FALSE)

FLess(x, y) ==
    IF y.m = <<>> THEN FALSE
    ELSE IF x.m = <<>> THEN TRUE
    ELSE IF x.e # y.e THEN x.e < y.e
    ELSE BigLess(x.m, y.m, Len(x.m))

FLeq(x, y) == ~FLess(y, x)

\* Math.min on two non-negative numbers
FMin(x, y) == IF FLess(y, x) THEN y ELSE x

FOne  == FromInt(1)
FHalf == FDivInt(FromInt(1), 2)

(***************************************************************************)
(* Tiles.                                                                  *)
(***************************************************************************)
\* enum TileType
Grass       == 0
Dirt        == 1
Stone       == 2
Water       == 3
TilledDirt  == 4
PlantedDirt == 5
Tree        == 6

tileSize == 32

\* crop names handed to plantSeed ('carrot' is the parameter's default)
CropTypes == {"carrot", "wheat"}

\* the value returned by getTileAt outside the grid, and by a failed harvest
NullTile == [null |-> TRUE]
Null     == "null"

Has(t, f) == f \in DOMAIN t

\* JavaScript truthiness of an optional boolean / number property
TruthyBool(t, f) == Has(t, f) /\ t[f] = TRUE
TruthyTime(t, f) == Has(t, f) /\ t[f] # 0
TruthyNum(t, f)  == Has(t, f) /\ t[f] # FZero

\* obj.f = v on an existing object
SetField(t, f, v) == [k \in DOMAIN t \cup {f} |-> IF k = f THEN v ELSE t[k]]

\* the tile literals written by generateMap
GrassTile == [type |-> Grass, solid |-> FALSE]
DirtTile  == [type |-> Dirt,  solid |-> FALSE]
StoneTile == [type |-> Stone, solid |-> TRUE]
WaterTile == [type |-> Water, solid |-> TRUE]
\* a tree generated with four hits to take
TreeTile_m == [type |-> Tree,  solid |-> TRUE, treeHealth |-> 4]

TreeTile  == [type |-> Tree,  solid |-> TRUE, treeHealth |-> 3]

GeneratedTiles == {GrassTile, DirtTile, StoneTile, WaterTile, TreeTile}

Cols == 0 .. (Width - 1)
Rows == 0 .. (Height - 1)

\* generateTrees places no tree next to a tree (eight neighbours)
NoAdjacentTrees(ts) ==
    \A y \in Rows, x \in Cols, v \in Rows, u \in Cols :
        /\ ts[y][x].type = Tree /\ ts[v][u].type = Tree
        /\ <<x, y>> # <<u, v>>
        => (x - u > 1 \/ u - x > 1 \/ y - v > 1 \/ v - y > 1)

\* a lookup that lets a column at or beyond the width through
getTileAt_m(ts, tileX, tileY) ==
    IF tileX < 0 \/ tileY < 0 \/ tileY >= Height
    THEN NullTile
    ELSE ts[tileY][IF tileX >= Width THEN Width - 1 ELSE tileX]

getTileAt(ts, tileX, tileY) ==
    IF tileX < 0 \/ tileX >= Width \/ tileY < 0 \/ tileY >= Height
    THEN NullTile
    ELSE ts[tileY][tileX]

\* this.tiles[tileY][tileX] = t
Put(ts, tileX, tileY, t) == [ts EXCEPT ![tileY][tileX] = t]

\* Math.floor(x / this.tileSize)
TileIndex(x) == x \div tileSize

\* the kinds a hoe can till
Tillable_m(tile) == tile.type = Grass \/ tile.type = Dirt \/ tile.type = Stone

Tillable(tile) == tile.type = Grass \/ tile.type = Dirt

\* a hoe that leaves the tilled tile solid
tillTile_m(ts, x, y, t) ==
    LET tileX == TileIndex(x)
        tileY == TileIndex(y)
        tile  == getTileAt(ts, tileX, tileY)
    IN  IF tile # NullTile /\ Tillable(tile)
        THEN [tiles |-> Put(ts, tileX, tileY,
                            [type |-> TilledDirt, solid |-> TRUE,
                             tilled |-> TRUE, tilledTime |-> t]),
              ret |-> TRUE]
        ELSE [tiles |-> ts, ret |-> FALSE]

tillTile(ts, x, y, t) ==
    LET tileX == TileIndex(x)
        tileY == TileIndex(y)
        tile  == getTileAt(ts, tileX, tileY)
    IN  IF tile # NullTile /\ Tillable(tile)
        THEN [tiles |-> Put(ts, tileX, tileY,
                            [type |-> TilledDirt, solid |-> FALSE,
                             tilled |-> TRUE, tilledTime |-> t]),
              ret |-> TRUE]
        ELSE [tiles |-> ts, ret |-> FALSE]

\* tilled dirt that carries no crop
Plantable_m(tile) == ~TruthyBool(tile, "planted")

Plantable(tile) == tile.type = TilledDirt /\ ~TruthyBool(tile, "planted")

plantSeed(ts, x, y, cropType) ==
    LET tileX == TileIndex(x)
        tileY == TileIndex(y)
        tile  == getTileAt(ts, tileX, tileY)
    IN  IF tile # NullTile /\ Plantable(tile)
        THEN [tiles |-> Put(ts, tileX, tileY,
                            [type |-> PlantedDirt, solid |-> FALSE,
                             tilled |-> TRUE, planted |-> TRUE,
                             growth |-> FZero, watered |-> FALSE,
                             cropType |-> cropType]),
              ret |-> TRUE]
        ELSE [tiles |-> ts, ret |-> FALSE]

Waterable_m(tile) == tile.type = PlantedDirt

Waterable(tile) == tile.type = TilledDirt \/ tile.type = PlantedDirt

waterTile(ts, x, y, t) ==
    LET tileX == TileIndex(x)
        tileY == TileIndex(y)
        tile  == getTileAt(ts, tileX, tileY)
    IN  IF tile # NullTile /\ Waterable(tile)
        THEN [tiles |-> Put(ts, tileX, tileY,
                            SetField(SetField(tile, "watered", TRUE),
                                     "lastWatered", t)),
              ret |-> TRUE]
        ELSE [tiles |-> ts, ret |-> FALSE]

\* a crop that can be cut: tile.growth && tile.growth >= 1
Harvestable_m(tile) ==
    tile.type = PlantedDirt /\ TruthyNum(tile, "growth")

Harvestable(tile) ==
    tile.type = PlantedDirt /\ TruthyNum(tile, "growth") /\ FLeq(FOne, tile.growth)

harvestCrop(ts, x, y) ==
    LET tileX == TileIndex(x)
        tileY == TileIndex(y)
        tile  == getTileAt(ts, tileX, tileY)
    IN  IF tile # NullTile /\ Harvestable(tile)
        THEN [tiles |-> Put(ts, tileX, tileY,
                            [type |-> TilledDirt, solid |-> FALSE,
                             tilled |-> TRUE, watered |-> FALSE]),
              ret |-> IF Has(tile, "cropType") /\ tile.cropType # ""
                      THEN tile.cropType ELSE "carrot"]
        ELSE [tiles |-> ts, ret |-> Null]

\* a tree that survives the hit: tile.treeHealth && tile.treeHealth > 1
Survives_m(tile) == Has(tile, "treeHealth") /\ tile.treeHealth > 0

Survives(tile) ==
    Has(tile, "treeHealth") /\ tile.treeHealth # 0 /\ tile.treeHealth > 1

chopTree(ts, x, y) ==
    LET tileX == TileIndex(x)
        tileY == TileIndex(y)
        tile  == getTileAt(ts, tileX, tileY)
    IN  IF tile # NullTile /\ tile.type = Tree
        THEN IF Survives(tile)
             THEN [tiles |-> Put(ts, tileX, tileY,
                                 SetField(tile, "treeHealth", tile.treeHealth - 1)),
                   ret |-> FALSE]
             ELSE [tiles |-> Put(ts, tileX, tileY, GrassTile), ret |-> TRUE]
        ELSE [tiles |-> ts, ret |-> FALSE]

(***************************************************************************)
(* Growth scheduler.                                                       *)
(***************************************************************************)
waterDuration == 5000     \* ms a watering lasts
tillTimeout   == 30000    \* ms before unplanted tilled dirt reverts

\* the literal 0.1, crop growth per second
growthRate == FDivInt(FromInt(1), 10)

\* deltaTime of a frame that took ms milliseconds: (currentTime - lastTime) / 1000
FrameDelta(ms) == FDivInt(FromInt(ms), 1000)

\* Math.min(1, tile.growth + deltaTime * 0.1)
Grow_m(growth, deltaTime) == FAdd(growth, FMul(deltaTime, growthRate))

Grow(growth, deltaTime) == FMin(FOne, FAdd(growth, FMul(deltaTime, growthRate)))

\* watered flag after the "dry out" test of a watered crop
DryOut_m(tile, currentTime) ==
    IF TruthyTime(tile, "lastWatered") /\ currentTime - tile.lastWatered >= waterDuration
    THEN FALSE
    ELSE tile.watered

DryOut(tile, currentTime) ==
    IF TruthyTime(tile, "lastWatered") /\ currentTime - tile.lastWatered > waterDuration
    THEN FALSE
    ELSE tile.watered

\* tilled dirt that is not planted goes back to grass
Reverts_m(tile, currentTime) ==
    TruthyTime(tile, "tilledTime") /\ currentTime - tile.tilledTime >= tillTimeout

Reverts(tile, currentTime) ==
    TruthyTime(tile, "tilledTime") /\ currentTime - tile.tilledTime > tillTimeout

\* crops grow when watered
Growing_m(tile) == TRUE

Growing(tile) == TruthyBool(tile, "watered")

\* the body of the loop of updateCrops, for one tile
updateTile(tile, deltaTime, currentTime) ==
    IF tile.type = PlantedDirt /\ TruthyBool(tile, "planted") /\ Has(tile, "growth")
    THEN IF Growing(tile)
         THEN LET grown == SetField(tile, "growth", Grow(tile.growth, deltaTime))
              IN  SetField(grown, "watered", DryOut(grown, currentTime))
         ELSE tile
    ELSE IF tile.type = TilledDirt /\ ~TruthyBool(tile, "planted")
         THEN IF Reverts(tile, currentTime) THEN GrassTile ELSE tile
         ELSE tile

updateCrops(ts, deltaTime, currentTime) ==
    [y \in Rows |-> [x \in Cols |-> updateTile(ts[y][x], deltaTime, currentTime)]]

(***************************************************************************)
(* Lengths.  Positions are JavaScript numbers; every position that occurs  *)
(* here is a multiple of 1/16 px (the frame lengths used make              *)
(* velocity * deltaTime exact), so a length is an integer count of 1/16 px.*)
(***************************************************************************)
Unit == 16

Px(n) == n * Unit

\* Math.floor of a length, in px
FloorPx(u) == u \div Unit

Sq(n) == n * n

\* dx * dx + dy * dy
DistSq(x1, y1, x2, y2) == Sq(x1 - x2) + Sq(y1 - y2)

(***************************************************************************)
(* ItemDropManager (src/src/game/ItemDrop.ts).  The registry is the set of *)
(* its drops and the next id; the bobbing phase of a drop is animation     *)
(* only and is left out.                                                   *)
(***************************************************************************)
NoDrops == [items |-> {}, nextId |-> 1]

createDrop(ds, x, y, itemType, quantity) ==
    [items  |-> ds.items \cup {[id |-> ds.nextId, x |-> x, y |-> y,
                                itemType |-> itemType, quantity |-> quantity]},
     nextId |-> ds.nextId + 1]

\* distSq < pickupRadius * pickupRadius
InPickupRange_m(drop, playerX, playerY, pickupRadius) ==
    DistSq(drop.x, drop.y, playerX, playerY) <= Sq(pickupRadius)

InPickupRange(drop, playerX, playerY, pickupRadius) ==
    DistSq(drop.x, drop.y, playerX, playerY) < Sq(pickupRadius)

checkPickup(ds, playerX, playerY, pickupRadius) ==
    LET pickedUp == {d \in ds.items : InPickupRange(d, playerX, playerY, pickupRadius)}
    IN  [drops    |-> [ds EXCEPT !.items = @ \ pickedUp],
         pickedUp |-> pickedUp]

\* the default of the parameter pickupRadius
pickupRadius == Px(24)

(***************************************************************************)
(* InventorySystem (src/src/game/InventorySystem.ts, lines 17-350).  An    *)
(* item is the record of the source without its name and icon; a slot      *)
(* holds an item or NoItem.                                                *)
(***************************************************************************)
hotbarSize == 6

NoItem == [null |-> TRUE]

HotbarSlots == 0 .. (hotbarSize - 1)
GridSlots   == (0 .. (GridRows - 1)) \X (0 .. (GridCols - 1))

ToolItem(id, toolType) ==
    [id |-> id, quantity |-> 1, stackable |-> FALSE, type |-> "tool",
     toolType |-> toolType]

CarrotSeeds(quantity) ==
    [id |-> "carrot_seeds", quantity |-> quantity, stackable |-> TRUE,
     type |-> "seed", toolType |-> "seeds"]

Stackable(id, quantity, type) ==
    [id |-> id, quantity |-> quantity, stackable |-> TRUE, type |-> type]

\* the constructor and initializeStartingItems
NewInventory ==
    [grid   |-> [row \in 0 .. (GridRows - 1) |-> [col \in 0 .. (GridCols - 1) |-> NoItem]],
     hotbar |-> [i \in HotbarSlots |->
                    CASE i = 0 -> ToolItem("hoe", "hoe")
                      [] i = 1 -> ToolItem("axe", "axe")
                      [] i = 2 -> ToolItem("watering_can", "wateringCan")
                      [] i = 3 -> ToolItem("scythe", "scythe")
                      [] i = 4 -> CarrotSeeds(10)
                      [] OTHER -> NoItem],
     isOpen          |-> FALSE,
     draggedItem     |-> NoItem,
     draggedFromSlot |-> NoItem]

Slot(row, col, isHotbar) == [row |-> row, col |-> col, isHotbar |-> isHotbar]

\* isHotbar ? this.hotbar[col] : this.grid[row][col]
SlotItem(inv, slot) ==
    IF slot.isHotbar THEN inv.hotbar[slot.col] ELSE inv.grid[slot.row][slot.col]

SetSlot(inv, slot, item) ==
    IF slot.isHotbar
    THEN [inv EXCEPT !.hotbar[slot.col] = item]
    ELSE [inv EXCEPT !.grid[slot.row][slot.col] = item]

\* the position of a grid slot in the row-by-row scan of the grid
GridOrder(s) == s[1] * GridCols + s[2]

FirstHotbar(S) == CHOOSE i \in S : \A j \in S : i <= j

FirstGrid(S) == CHOOSE s \in S : \A t \in S : GridOrder(s) <= GridOrder(t)

HotbarStacks(inv, id) ==
    {i \in HotbarSlots : inv.hotbar[i] # NoItem /\ inv.hotbar[i].id = id}

GridStacks(inv, id) ==
    {s \in GridSlots : inv.grid[s[1]][s[2]] # NoItem /\ inv.grid[s[1]][s[2]].id = id}

FreeGrid(inv) == {s \in GridSlots : inv.grid[s[1]][s[2]] = NoItem}

\* addItem(item): the inventory after the call and the value returned
addItem(inv, item) ==
    IF item.stackable /\ HotbarStacks(inv, item.id) # {}
    THEN [inv   |-> [inv EXCEPT !.hotbar[FirstHotbar(HotbarStacks(inv, item.id))].quantity
                                    = @ + item.quantity],
          added |-> TRUE]
    ELSE IF item.stackable /\ GridStacks(inv, item.id) # {}
    THEN [inv   |-> [inv EXCEPT !.grid[FirstGrid(GridStacks(inv, item.id))[1]]
                                      [FirstGrid(GridStacks(inv, item.id))[2]].quantity
                                    = @ + item.quantity],
          added |-> TRUE]
    ELSE IF FreeGrid(inv) # {}
    THEN [inv   |-> [inv EXCEPT !.grid[FirstGrid(FreeGrid(inv))[1]]
                                      [FirstGrid(FreeGrid(inv))[2]] = item],
          added |-> TRUE]
    ELSE [inv |-> inv, added |-> FALSE]

\* getItemCount(id)
getItemCount(inv, id) ==
    LET RECURSIVE Sum(_)
        Sum(S) == IF S = {} THEN 0
                  ELSE LET x == CHOOSE x \in S : TRUE
                       IN  x[2] + Sum(S \ {x})
    IN  Sum({<<"hotbar", inv.hotbar[i].quantity, i>> : i \in HotbarStacks(inv, id)}
            \cup {<<"grid", inv.grid[s[1]][s[2]].quantity, s>> : s \in GridStacks(inv, id)})

startDragging(inv, row, col, isHotbar) ==
    IF SlotItem(inv, Slot(row, col, isHotbar)) # NoItem
    THEN [SetSlot(inv, Slot(row, col, isHotbar), NoItem)
            EXCEPT !.draggedItem     = SlotItem(inv, Slot(row, col, isHotbar)),
                   !.draggedFromSlot = Slot(row, col, isHotbar)]
    ELSE inv

\* lines 210-215: the item of an occupied target goes to the source slot,
\* then the dragged item goes to the target
Swapped(inv, target) ==
    IF SlotItem(inv, target) # NoItem
    THEN SetSlot(inv, inv.draggedFromSlot, SlotItem(inv, target))
    ELSE inv

dropItem(inv, row, col, isHotbar) ==
    IF inv.draggedItem = NoItem \/ inv.draggedFromSlot = NoItem
    THEN inv
    ELSE [SetSlot(Swapped(inv, Slot(row, col, isHotbar)), Slot(row, col, isHotbar),
                  inv.draggedItem)
            EXCEPT !.draggedItem = NoItem, !.draggedFromSlot = NoItem]

cancelDragging(inv) ==
    [(IF inv.draggedItem # NoItem /\ inv.draggedFromSlot # NoItem
      THEN SetSlot(inv, inv.draggedFromSlot, inv.draggedItem)
      ELSE inv)
        EXCEPT !.draggedItem = NoItem, !.draggedFromSlot = NoItem]

toggleInventory(inv) ==
    IF inv.isOpen
    THEN [cancelDragging(inv) EXCEPT !.isOpen = FALSE]
    ELSE [inv EXCEPT !.isOpen = TRUE]

\* Player.collectItems, lines 276-306: the inventory item made of a drop;
\* no item for a drop of another kind
ItemOfDrop(drop) ==
    CASE drop.itemType = "seeds"  -> CarrotSeeds(drop.quantity)
      [] drop.itemType = "carrot" -> Stackable("carrot", drop.quantity, "crop")
      [] drop.itemType = "wood"   -> Stackable("wood", drop.quantity, "resource")
      [] OTHER                    -> NoItem

\* lines 271-327 for one drop
collectItem(inv, drop) ==
    IF ItemOfDrop(drop) = NoItem
    THEN [inv |-> inv, added |-> FALSE]
    ELSE addItem(inv, ItemOfDrop(drop))

\* pickedUp.forEach(...), in the order of the ids (the order of the Map of
\* the registry): the inventory after the loop and the drops that addItem
\* took
RECURSIVE collectItems(_, _)
collectItems(inv, pickedUp) ==
    IF pickedUp = {}
    THEN [inv |-> inv, added |-> {}]
    ELSE LET drop == CHOOSE d \in pickedUp : \A e \in pickedUp : d.id <= e.id
             one  == collectItem(inv, drop)
             rest == collectItems(one.inv, pickedUp \ {drop})
         IN  [inv |-> rest.inv,
              added |-> (IF one.added THEN {drop} ELSE {}) \cup rest.added]

(***************************************************************************)
(* new TileMap(width, height): the shape of the grid that the constructor  *)
(* and generateMap build, and whether generateStones / generateTrees read  *)
(* a cell of a row that does not exist (a TypeError).                      *)
(***************************************************************************)
\* Math.floor(this.width * this.height * fraction), fraction = percent / 100
FeatureCount(width, height, percent) == (width * height * percent) \div 100

NewTileMap(width, height) ==
    LET rows    == IF height > 0 THEN height ELSE 0
        cols    == IF width > 0 THEN width ELSE 0
        \* the loops of generateStones (2 %) and generateTrees (3 %) run
        drawn   == FeatureCount(width, height, 2) >= 1 \/ FeatureCount(width, height, 3) >= 1
    IN  [threw |-> drawn /\ (rows = 0 \/ cols = 0),
         rows  |-> rows,
         cols  |-> cols]

(***************************************************************************)
(* Player (src/src/game/Player.ts).                                        *)
(***************************************************************************)
speed            == 150                       \* px per second
toolUseDuration_m == FDivInt(FromInt(2), 10)

toolUseDuration  == FDivInt(FromInt(3), 10)   \* 0.3 s
halfSize         == Px(12)                    \* size 24 x 24
interactDistance == Px(32)

Tools == {"hoe", "seeds", "wateringCan", "scythe", "axe"}

\* Input.getMovementVector for one direction key
MoveVec(move) ==
    CASE move = "left"  -> <<-1, 0>>
      [] move = "right" -> <<1, 0>>
      [] move = "up"    -> <<0, -1>>
      [] move = "down"  -> <<0, 1>>
      [] OTHER          -> <<0, 0>>

Abs(n) == IF n < 0 THEN 0 - n ELSE n

Max(a, b) == IF a > b THEN a ELSE b

Min(a, b) == IF a < b THEN a ELSE b

\* TileMap.isSolid: no tile counts as solid
isSolid(ts, x, y) ==
    LET tile == getTileAt(ts, TileIndex(FloorPx(x)), TileIndex(FloorPx(y)))
    IN  IF tile = NullTile THEN TRUE ELSE tile.solid

checkCollision_m(x, y, ts) ==
    \E cx \in {x - halfSize}, cy \in {y - halfSize, y + halfSize} :
        isSolid(ts, cx, cy)

checkCollision(x, y, ts) ==
    \E cx \in {x - halfSize, x + halfSize}, cy \in {y - halfSize, y + halfSize} :
        isSolid(ts, cx, cy)

\* lines 34-40: the tool animation, advanced by deltaTime
ToolAnimation(isUsingTool, toolUseTime, deltaTime) ==
    IF ~isUsingTool
    THEN [isUsingTool |-> FALSE, toolUseTime |-> toolUseTime]
    ELSE IF FLeq(toolUseDuration, FAdd(toolUseTime, deltaTime))
         THEN [isUsingTool |-> FALSE, toolUseTime |-> FZero]
         ELSE [isUsingTool |-> TRUE, toolUseTime |-> FAdd(toolUseTime, deltaTime)]

\* lines 51-55 and 65-66: |velocity| * deltaTime; speedMultiplier is 1/2
\* while the tool is used, 7/4 when sprinting
StepLength(ms, isUsingTool, isSprinting) ==
    IF isUsingTool THEN (speed * Unit * ms) \div 2000
    ELSE IF isSprinting THEN (speed * Unit * ms * 7) \div 4000
    ELSE (speed * Unit * ms) \div 1000

\* lines 58-62
Facing(vx, vy, facing) ==
    IF Abs(vx) > Abs(vy)
    THEN (IF vx > 0 THEN "right" ELSE "left")
    ELSE IF vy # 0
         THEN (IF vy > 0 THEN "down" ELSE "up")
         ELSE facing

\* lines 69-71
MoveX(x, y, newX, ts) == IF ~checkCollision(newX, y, ts) THEN newX ELSE x

\* lines 74-76
MoveY(x, y, newY, ts) == IF ~checkCollision(x, newY, ts) THEN newY ELSE y

\* lines 82-83
Clamp(v, world) == Max(halfSize, Min(world - halfSize, v))

\* lines 64-83, with the step <<dx, dy>> = velocity * deltaTime
Moved(p, dx, dy, ts) ==
    [p EXCEPT !.x = Clamp(MoveX(p.x, p.y, p.x + dx, ts), Px(Width * tileSize)),
              !.y = Clamp(MoveY(MoveX(p.x, p.y, p.x + dx, ts), p.y, p.y + dy, ts),
                          Px(Height * tileSize)),
              !.facing = Facing(dx, dy, p.facing)]

\* lines 34-62
Animated(p, tool) ==
    [p EXCEPT !.isUsingTool = tool.isUsingTool, !.toolUseTime = tool.toolUseTime]

Stepped(p, len, move, ts) ==
    Moved(p, MoveVec(move)[1] * len, MoveVec(move)[2] * len, ts)

\* Player.update(deltaTime, movement, tileMap, isSprinting), deltaTime = ms / 1000
PlayerUpdate(p, ms, move, isSprinting, ts) ==
    LET q == Animated(p, ToolAnimation(p.isUsingTool, p.toolUseTime, FrameDelta(ms)))
    IN  Stepped(q, StepLength(ms, q.isUsingTool, isSprinting), move, ts)

\* the point in front of the player that Player.interact targets
FacingTarget(p) ==
    CASE p.facing = "up"    -> <<p.x, p.y - interactDistance>>
      [] p.facing = "down"  -> <<p.x, p.y + interactDistance>>
      [] p.facing = "left"  -> <<p.x - interactDistance, p.y>>
      [] p.facing = "right" -> <<p.x + interactDistance, p.y>>

\* the two drops of a harvest
cropDrops(ds, x, y, crop) ==
    createDrop(createDrop(ds, x, y, crop, 1), x + Px(10), y - Px(10), "seeds", 2)

\* the two drops of a felled tree
woodDrops_m(ds, x, y) == createDrop(ds, x, y, "wood", 3)

woodDrops(ds, x, y) ==
    createDrop(createDrop(ds, x, y, "wood", 3), x - Px(10), y + Px(10), "wood", 2)

\* the switch on toolType of Player.interact / Player.interactAt, at the
\* point <<x, y>> and the time t
UseTool(ts, ds, toolType, x, y, t) ==
    LET px == FloorPx(x)
        py == FloorPx(y)
    IN  CASE toolType = "hoe" ->
               LET r == tillTile(ts, px, py, t)
               IN  [tiles |-> r.tiles, drops |-> ds, op |-> "tillTile", ok |-> r.ret]
          [] toolType = "seeds" ->
               LET r == plantSeed(ts, px, py, "carrot")
               IN  [tiles |-> r.tiles, drops |-> ds, op |-> "plantSeed", ok |-> r.ret]
          [] toolType = "wateringCan" ->
               LET r == waterTile(ts, px, py, t)
               IN  [tiles |-> r.tiles, drops |-> ds, op |-> "waterTile", ok |-> r.ret]
          [] toolType = "scythe" ->
               LET r == harvestCrop(ts, px, py)
               IN  [tiles |-> r.tiles,
                    drops |-> IF r.ret # Null THEN cropDrops(ds, x, y, r.ret) ELSE ds,
                    op |-> "harvestCrop", ok |-> r.ret # Null]
          [] toolType = "axe" ->
               LET r == chopTree(ts, px, py)
               IN  [tiles |-> r.tiles,
                    drops |-> IF r.ret THEN woodDrops(ds, x, y) ELSE ds,
                    op |-> "chopTree", ok |-> r.ret]
          [] OTHER ->
               [tiles |-> ts, drops |-> ds, op |-> "none", ok |-> FALSE]

(***************************************************************************)
(* Game.update (src/src/game/InventorySystem.ts, lines 1929-2339), one     *)
(* tick.  The tick threads a record g through its steps:                   *)
(*   tiles, player, drops, ui   the objects the tick works on              *)
(*   hovered     this.hoveredTile: <<>> for null, else <<cell>>            *)
(*   busy        ms of Player.update since the tool animation was started  *)
(*   order       the steps in the order in which they ran                  *)
(*   dispatches  the calls of Player.interact / Player.interactAt          *)
(*   npc         the NPC interactions that took place                      *)
(*   picked      the drops returned to collectItems                        *)
(*   preSweep    the tiles as updateCrops found them                       *)
(* The input of a tick is a record in:                                     *)
(*   ms          length of the frame                                       *)
(*   move        the direction key held, isSprinting                       *)
(*   keys        the keys / mouse button pressed in this frame             *)
(*   mouse       the cell under the pointer                                *)
(*   item        toolType of the selected hotbar item                      *)
(***************************************************************************)
\* world coordinate of the centre of tile index i, as Game.update computes
\* the target of a click
Centre(i) == i * tileSize + tileSize \div 2

reachDistance     == Px(64)
interactionRadius == Px(48)

\* NPC.position of the two NPCs: centres of two tiles of the region
shopkeeperPos == <<Px(Centre(0)), Px(Centre(0))>>
blacksmithPos == <<Px(Centre(2)), Px(Centre(0))>>

\* NPC.isNearPlayer
isNearPlayer(npcPos, p) ==
    DistSq(npcPos[1], npcPos[2], p.x, p.y) < Sq(interactionRadius)

\* centre of a cell, as a point
CellCentre(cell) == <<Px(Centre(cell[1])), Px(Centre(cell[2]))>>

\* lines 1936-1951
Hover(g, in) ==
    LET c == CellCentre(in.mouse)
    IN  [g EXCEPT !.hovered =
            IF DistSq(c[1], c[2], g.player.x, g.player.y) < Sq(reachDistance)
               /\ ~g.ui.shop
            THEN <<in.mouse>> ELSE <<>>]

\* line 1956
MovePlayer(g, in) ==
    [g EXCEPT !.player = PlayerUpdate(g.player, in.ms, in.move, in.isSprinting, g.tiles),
              !.busy   = IF @ = -1 THEN -1 ELSE @ + in.ms]

\* lines 2042-2068
OnEscape(g) ==
    [g EXCEPT !.ui  = [shop |-> FALSE, blacksmith |-> FALSE, inventory |-> FALSE],
              !.inv = IF @.isOpen THEN toggleInventory(@) ELSE @]

\* lines 2071-2084
OnKeyE(g) ==
    IF isNearPlayer(shopkeeperPos, g.player)
    THEN [g EXCEPT !.npc = Append(@, "talk")]
    ELSE [g EXCEPT !.ui.inventory = ~@, !.inv = toggleInventory(@)]

\* lines 2087-2105
OnKeyF(g) ==
    IF isNearPlayer(shopkeeperPos, g.player)
    THEN [g EXCEPT !.ui.shop = ~@, !.npc = Append(@, "shop")]
    ELSE IF isNearPlayer(blacksmithPos, g.player)
         THEN [g EXCEPT !.ui.blacksmith = ~@, !.npc = Append(@, "blacksmith")]
         ELSE g

Keys(g, in) ==
    LET g1 == IF "Escape" \in in.keys THEN OnEscape(g) ELSE g
        g2 == IF "E" \in in.keys THEN OnKeyE(g1) ELSE g1
    IN  IF "F" \in in.keys THEN OnKeyF(g2) ELSE g2

\* lines 111-113 and 137-181: the dispatch that passed the gate, r the
\* outcome of its tool
Dispatched(g, seen, r) ==
    [g EXCEPT !.player.isUsingTool = TRUE,
              !.player.toolUseTime = FZero,
              !.busy = 0,
              !.tiles = r.tiles,
              !.drops = r.drops,
              !.dispatches =
                  Append(@, [seen |-> seen, passed |-> TRUE, op |-> r.op,
                             ok |-> r.ok,
                             created |-> r.drops.items \ g.drops.items,
                             isUsingTool |-> TRUE,
                             toolUseTime |-> FZero])]

\* Player.interact / Player.interactAt with the tool toolType at the point
\* target, at time t: the cooldown gate, then the tool.  The record of the
\* call keeps what the call found (seen), whether it passed the gate, the
\* tile operation it reached and its outcome, the drops it created and the
\* tool animation as it left it.
Dispatch(g, via, toolType, target, t) ==
    LET seen == [via |-> via, toolType |-> toolType, target |-> target,
                 distSq |-> DistSq(target[1], target[2], g.player.x, g.player.y),
                 ui |-> g.ui, busy |-> g.busy,
                 toolUseTime |-> g.player.toolUseTime]
    IN  IF g.player.isUsingTool
        THEN [g EXCEPT !.dispatches =
                 Append(@, [seen |-> seen, passed |-> FALSE, op |-> "none",
                            ok |-> FALSE, created |-> {},
                            isUsingTool |-> g.player.isUsingTool,
                            toolUseTime |-> g.player.toolUseTime])]
        ELSE Dispatched(g, seen, UseTool(g.tiles, g.drops, toolType, target[1], target[2], t))

\* getSelectedHotbarItem: the hotbar slots that hold the tool of the frame
SelectedSlots(inv, toolType) ==
    {i \in HotbarSlots : /\ inv.hotbar[i] # NoItem
                         /\ Has(inv.hotbar[i], "toolType")
                         /\ inv.hotbar[i].toolType = toolType}

\* lines 2150-2158: one seed leaves the selected stack
consumeSeed(inv, i) ==
    IF inv.hotbar[i].quantity > 1
    THEN [inv EXCEPT !.hotbar[i].quantity = @ - 1]
    ELSE [inv EXCEPT !.hotbar[i] = NoItem]

\* lines 2134 and 2141-2144, for carrot seeds
checkSuccess(tileBeforePlanting, tileAfterPlanting) ==
    /\ tileBeforePlanting # NullTile
    /\ tileBeforePlanting.type = TilledDirt
    /\ ~TruthyBool(tileBeforePlanting, "planted")
    /\ tileAfterPlanting # NullTile
    /\ TruthyBool(tileAfterPlanting, "planted")

\* lines 2149-2160
SeedSpent(g, toolType, tileBeforePlanting, tileAfterPlanting) ==
    IF toolType = "seeds" /\ checkSuccess(tileBeforePlanting, tileAfterPlanting)
    THEN [g EXCEPT !.inv = consumeSeed(@, FirstHotbar(SelectedSlots(@, toolType)))]
    ELSE g

\* lines 2115-2137: the tile in front of the player, read after
\* player.interact has returned, as tileBeforePlanting and as
\* tileAfterPlanting
AfterInteract(g, toolType) ==
    LET target == FacingTarget(g.player)
        tile   == getTileAt(g.tiles, TileIndex(FloorPx(target[1])),
                            TileIndex(FloorPx(target[2])))
    IN  SeedSpent(g, toolType, tile, tile)

\* lines 2108-2164
OnSpace(g, in, t) ==
    IF /\ ~g.ui.inventory /\ "Space" \in in.keys /\ in.item \in Tools
       /\ SelectedSlots(g.inv, in.item) # {}
    THEN AfterInteract(Dispatch(g, "interact", in.item, FacingTarget(g.player), t),
                       in.item)
    ELSE g

\* the gate of the mouse click, line 2167
ClickAllowed(g) == g.hovered # <<>> /\ ~g.ui.shop /\ ~g.ui.inventory

\* lines 2177-2208: tileBeforePlanting is read before player.interactAt
\* is called, tileAfterPlanting after it
AfterInteractAt(g, h, toolType, cell) ==
    SeedSpent(h, toolType, getTileAt(g.tiles, cell[1], cell[2]),
              getTileAt(h.tiles, cell[1], cell[2]))

\* lines 2167-2215
OnClick(g, in, t) ==
    IF /\ "Mouse" \in in.keys /\ ClickAllowed(g) /\ in.item \in Tools
       /\ SelectedSlots(g.inv, in.item) # {}
    THEN AfterInteractAt(g, Dispatch(g, "interactAt", in.item, CellCentre(g.hovered[1]), t),
                         in.item, g.hovered[1])
    ELSE g

\* Player.collectItems, line 2218
Collect(g) ==
    LET r == checkPickup(g.drops, g.player.x, g.player.y, pickupRadius)
    IN  [g EXCEPT !.drops = r.drops, !.picked = r.pickedUp,
                  !.inv = collectItems(@, r.pickedUp).inv,
                  !.preCollect = g.inv]

\* lines 2222-2224
AutoClose(g) ==
    IF g.ui.shop /\ ~isNearPlayer(shopkeeperPos, g.player)
    THEN [g EXCEPT !.ui.shop = FALSE]
    ELSE g

\* line 2324
Sweep(g, in, t) ==
    [g EXCEPT !.tiles    = updateCrops(g.tiles, FrameDelta(in.ms), t),
              !.preSweep = g.tiles]

\* the steps of a tick, in the order of the source
NextPhase_m(phase) ==
    CASE phase = "hover"         -> "player.update"
      [] phase = "player.update" -> "keys"
      [] phase = "keys"          -> "interact"
      [] phase = "interact"      -> "interactAt"
      [] phase = "interactAt"    -> "updateCrops"
      [] phase = "updateCrops"   -> "collectItems"
      [] phase = "collectItems"  -> "autoClose"
      [] phase = "autoClose"     -> "itemDropManager.update"
      [] OTHER                   -> "end"

NextPhase(phase) ==
    CASE phase = "hover"         -> "player.update"
      [] phase = "player.update" -> "keys"
      [] phase = "keys"          -> "interact"
      [] phase = "interact"      -> "interactAt"
      [] phase = "interactAt"    -> "collectItems"
      [] phase = "collectItems"  -> "autoClose"
      [] phase = "autoClose"     -> "updateCrops"
      [] phase = "updateCrops"   -> "itemDropManager.update"
      [] OTHER                   -> "end"

RunPhase(phase, g, in, t) ==
    LET h == [g EXCEPT !.order = Append(@, phase)]
    IN  CASE phase = "hover"         -> Hover(h, in)
          [] phase = "player.update" -> MovePlayer(h, in)
          [] phase = "keys"          -> Keys(h, in)
          [] phase = "interact"      -> OnSpace(h, in, t)
          [] phase = "interactAt"    -> OnClick(h, in, t)
          [] phase = "collectItems"  -> Collect(h)
          [] phase = "autoClose"     -> AutoClose(h)
          [] phase = "updateCrops"   -> Sweep(h, in, t)
          [] OTHER                   -> h

RECURSIVE RunFrom(_, _, _, _)
RunFrom(phase, g, in, t) ==
    IF phase = "end"
    THEN g
    ELSE RunFrom(NextPhase(phase), RunPhase(phase, g, in, t), in, t)

(***************************************************************************)
(* State.                                                                  *)
(*   now      Date.now(), in ms                                            *)
(*   tiles    TileMap.tiles, tiles[tileY][tileX]                           *)
(*   call     the last TileMap method called: name, arguments, result      *)
(*   waterLog history: per tile, the times at which the crop planted last  *)
(*            on the tile was watered                                      *)
(*   chops    history: per tile, the chopTree calls that hit it as a Tree  *)
(*   nOps     number of tile operations called so far                      *)
(*   player   the Player object: position, facing, tool animation          *)
(*   drops    the ItemDropManager: its drops and its next id               *)
(*   ui       which menus are open: shop, blacksmith, inventory            *)
(*   hist     history: the ids of the drops returned by checkPickup so     *)
(*            far, and the ms of Player.update since the last dispatch     *)
(*            that started the tool animation (-1: none yet)               *)
(*   inv      the InventorySystem: grid, hotbar, open flag, dragged item   *)
(***************************************************************************)
VARIABLES now, tiles, call, waterLog, chops, nOps, player, drops, ui, hist, inv

vars == <<now, tiles, call, waterLog, chops, nOps, player, drops, ui, hist, inv>>

gameVars == <<player, drops, ui, hist, inv>>

\* new Player(x, y)
NewPlayer(x, y) ==
    [x |-> x, y |-> y, facing |-> "down", isUsingTool |-> FALSE, toolUseTime |-> FZero]

\* where the player stands at the start: the centre of a walkable tile, as
\* findSafeSpawnPosition returns it
PlayerStarts == {<<Px(Centre(1)), Px(Centre(0))>>, <<Px(Centre(2)), Px(Centre(0))>>}

MenusClosed == [shop |-> FALSE, blacksmith |-> FALSE, inventory |-> FALSE]

NoHistory == [picked |-> {}, busy |-> -1]

Cells == Cols \X Rows

\* world points handed to the tile operations: the centres of the first and
\* of the last tile of the grid, one point left of the grid and the first
\* point right of it
Points == {<<Centre(0), Centre(0)>>,
           <<Centre(Width - 1), Centre(Height - 1)>>,
           <<Centre(-1), Centre(0)>>,
           <<Width * tileSize, Centre(0)>>}

\* the cell a point lies on
CellOf(p) == <<TileIndex(p[1]), TileIndex(p[2])>>

InGrid(p) == CellOf(p) \in Cells

TileOf(ts, c) == ts[c[2]][c[1]]

At(ts, p) == getTileAt(ts, TileIndex(p[1]), TileIndex(p[2]))

PerTile(v) == [y \in Rows |-> [x \in Cols |-> v]]

\* a region of a generated map: grass, with any generated tile in its first
\* cell
Init ==
    /\ now = StartTime
    /\ \E first \in GeneratedTiles :
           tiles = [PerTile(GrassTile) EXCEPT ![0][0] = first]
    /\ call = [op |-> "constructor"]
    /\ waterLog = PerTile(<<>>)
    /\ chops = PerTile(0)
    /\ nOps = 0
    /\ player = NewPlayer(Px(Centre(1)), Px(Centre(0)))
    /\ drops = NoDrops
    /\ ui = MenusClosed
    /\ hist = NoHistory
    /\ inv = NewInventory

TillTile(p) ==
    LET r == tillTile(tiles, p[1], p[2], now) IN
    /\ nOps < MaxOps
    /\ tiles' = r.tiles
    /\ call' = [op |-> "tillTile", p |-> p, ret |-> r.ret]
    /\ nOps' = nOps + 1
    /\ UNCHANGED <<now, waterLog, chops>>
    /\ UNCHANGED gameVars

PlantSeed(p, cropType) ==
    LET r == plantSeed(tiles, p[1], p[2], cropType) IN
    /\ nOps < MaxOps
    /\ tiles' = r.tiles
    /\ call' = [op |-> "plantSeed", p |-> p, ret |-> r.ret]
    /\ waterLog' = IF r.ret
                   THEN [waterLog EXCEPT ![TileIndex(p[2])][TileIndex(p[1])] = <<>>]
                   ELSE waterLog
    /\ nOps' = nOps + 1
    /\ UNCHANGED <<now, chops>>
    /\ UNCHANGED gameVars

WaterTileAt(p) ==
    LET r == waterTile(tiles, p[1], p[2], now) IN
    /\ nOps < MaxOps
    /\ tiles' = r.tiles
    /\ call' = [op |-> "waterTile", p |-> p, ret |-> r.ret]
    /\ waterLog' = IF InGrid(p) /\ At(tiles, p).type = PlantedDirt
                   THEN [waterLog EXCEPT ![TileIndex(p[2])][TileIndex(p[1])] =
                                              Append(@, now)]
                   ELSE waterLog
    /\ nOps' = nOps + 1
    /\ UNCHANGED <<now, chops>>
    /\ UNCHANGED gameVars

HarvestCrop(p) ==
    LET r == harvestCrop(tiles, p[1], p[2]) IN
    /\ nOps < MaxOps
    /\ tiles' = r.tiles
    /\ call' = [op |-> "harvestCrop", p |-> p, ret |-> r.ret]
    /\ nOps' = nOps + 1
    /\ UNCHANGED <<now, waterLog, chops>>
    /\ UNCHANGED gameVars

ChopTree(p) ==
    LET r == chopTree(tiles, p[1], p[2]) IN
    /\ nOps < MaxOps
    /\ tiles' = r.tiles
    /\ call' = [op |-> "chopTree", p |-> p, ret |-> r.ret]
    /\ chops' = IF InGrid(p) /\ At(tiles, p).type = Tree
                THEN [chops EXCEPT ![TileIndex(p[2])][TileIndex(p[1])] = @ + 1]
                ELSE chops
    /\ nOps' = nOps + 1
    /\ UNCHANGED <<now, waterLog>>
    /\ UNCHANGED gameVars

\* one frame of the game loop that took ms milliseconds: the clock has moved
\* on by ms and updateCrops runs with deltaTime = ms / 1000
Frame(ms) ==
    LET swept == updateCrops(tiles, FrameDelta(ms), now + ms) IN
    /\ now' = now + ms
    /\ tiles' = swept
    /\ call' = [op |-> "updateCrops",
                reverted |-> {c \in Cells : /\ TileOf(tiles, c).type = TilledDirt
                                            /\ TileOf(swept, c).type = Grass}]
    /\ UNCHANGED <<waterLog, chops, nOps>>
    /\ UNCHANGED gameVars

Operation ==
    \E p \in Points :
        \/ TillTile(p)
        \/ \E c \in CropTypes : PlantSeed(p, c)
        \/ WaterTileAt(p)
        \/ HarvestCrop(p)
        \/ ChopTree(p)

Tick == \E ms \in Deltas : now + ms <= StartTime + MaxElapsed /\ Frame(ms)

LongTick ==
    \E ms \in LongDeltas : now + ms <= StartTime + MaxLongElapsed /\ Frame(ms)

Next == Operation \/ Tick

Spec == Init /\ [][Next]_vars

NextLong == Operation \/ LongTick

SpecLong == Init /\ [][NextLong]_vars

\* the player acts on the tiles during the first ActiveFor ms only; the frame
\* loop goes on
ActiveFor == 15000

EarlyOperation == now <= StartTime + ActiveFor /\ Operation

SoilTick ==
    \E ms \in LongDeltas : now + ms <= StartTime + MaxSoilElapsed /\ Frame(ms)

NextSoil == EarlyOperation \/ SoilTick

SpecSoil == Init /\ [][NextSoil]_vars

(***************************************************************************)
(* The map generator: TileMap.generateMap on a grid of GenWidth x          *)
(* GenHeight tiles.  Every Math.random() draw is a choice; the grid is     *)
(* small, so the loops of generateStones and generateTrees run StoneCount  *)
(* and TreeCount times instead of 2 % and 3 % of the number of tiles.      *)
(* call is the pass that ran last and the number of its iterations so far. *)
(***************************************************************************)
GenCols == 0 .. (GenWidth - 1)
GenRows == 0 .. (GenHeight - 1)

\* Math.floor(Math.sin(x * 0.3) * 2) for x = 0, 1, 2, ...: the values of
\* Math.sin(x * 0.3) * 2 are 0, 0.59.., 1.12.., 1.56.., 1.86.., 1.99..,
\* 1.94.., 1.72..
RiverOffset(x) == <<0, 0, 1, 1, 1, 1, 1, 1>>[x + 1]

riverWidth == 3
patchCount == 5

\* generateRiver on the all-grass grid of generateMap
RiverCells ==
    {<<x, y>> \in GenCols \X GenRows :
        \E dy \in (0 - riverWidth) .. riverWidth :
            y = GenHeight \div 2 + RiverOffset(x) + dy}

RiverMap ==
    [y \in GenRows |-> [x \in GenCols |->
        IF <<x, y>> \in RiverCells THEN WaterTile ELSE GrassTile]]

\* one iteration of the loop of generateStones, with the draws x, y
StoneAt(ts, x, y) ==
    IF ts[y][x].type = Grass THEN [ts EXCEPT ![y][x] = StoneTile] ELSE ts

\* one iteration of the loop of generateDirtPatches
DirtPatch(ts, centerX, centerY, radius) ==
    [y \in GenRows |-> [x \in GenCols |->
        IF /\ Sq(x - centerX) + Sq(y - centerY) <= Sq(radius)
           /\ ts[y][x].type = Grass
        THEN DirtTile ELSE ts[y][x]]]

\* the test of the eight neighbours (and the cell itself) in generateTrees
hasNearbyTree_m(ts, x, y) ==
    \E dy \in {-1, 1}, dx \in {-1, 1} :
        /\ x + dx \in GenCols /\ y + dy \in GenRows
        /\ ts[y + dy][x + dx].type = Tree

hasNearbyTree(ts, x, y) ==
    \E dy \in -1 .. 1, dx \in -1 .. 1 :
        /\ x + dx \in GenCols /\ y + dy \in GenRows
        /\ ts[y + dy][x + dx].type = Tree

\* one iteration of the loop of generateTrees
TreeAt(ts, x, y) ==
    IF ts[y][x].type = Grass /\ ~hasNearbyTree(ts, x, y)
    THEN [ts EXCEPT ![y][x] = TreeTile] ELSE ts

\* the pass this may run its next iteration: the pass before it is through,
\* or this is under way
Turn(before, done, this, count) ==
    \/ call.op = before /\ call.i = done
    \/ call.op = this /\ call.i < count

Iteration(this) == [op |-> this, i |-> IF call.op = this THEN call.i + 1 ELSE 1]

GenInit ==
    /\ now = StartTime
    /\ tiles = RiverMap
    /\ call = [op |-> "generateRiver", i |-> 0]
    /\ waterLog = <<>>
    /\ chops = <<>>
    /\ nOps = 0
    /\ player = NewPlayer(0, 0)
    /\ drops = NoDrops
    /\ ui = MenusClosed
    /\ hist = NoHistory
    /\ inv = NewInventory

GenerateStone(x, y) ==
    /\ Turn("generateRiver", 0, "generateStones", StoneCount)
    /\ tiles' = StoneAt(tiles, x, y)
    /\ call' = Iteration("generateStones")
    /\ UNCHANGED <<now, waterLog, chops, nOps, gameVars>>

GenerateDirtPatch(centerX, centerY, radius) ==
    /\ Turn("generateStones", StoneCount, "generateDirtPatches", patchCount)
    /\ tiles' = DirtPatch(tiles, centerX, centerY, radius)
    /\ call' = Iteration("generateDirtPatches")
    /\ UNCHANGED <<now, waterLog, chops, nOps, gameVars>>

GenerateTree(x, y) ==
    /\ Turn("generateDirtPatches", patchCount, "generateTrees", TreeCount)
    /\ tiles' = TreeAt(tiles, x, y)
    /\ call' = Iteration("generateTrees")
    /\ UNCHANGED <<now, waterLog, chops, nOps, gameVars>>

\* chopTree on a tile of the generated map
ChopGenerated(x, y) ==
    /\ Turn("generateTrees", TreeCount, "chopTree", MaxOps)
    /\ tiles[y][x].type = Tree
    /\ tiles' = [tiles EXCEPT ![y][x] =
                    IF Survives(@) THEN SetField(@, "treeHealth", @.treeHealth - 1)
                    ELSE GrassTile]
    /\ call' = Iteration("chopTree")
    /\ UNCHANGED <<now, waterLog, chops, nOps, gameVars>>

NextGen ==
    \/ \E x \in GenCols, y \in GenRows : GenerateStone(x, y)
    \/ \E centerX \in GenCols, centerY \in GenRows, radius \in 2 .. 4 :
           GenerateDirtPatch(centerX, centerY, radius)
    \/ \E x \in GenCols, y \in GenRows : GenerateTree(x, y)
    \/ \E x \in GenCols, y \in GenRows : ChopGenerated(x, y)

SpecGen == GenInit /\ [][NextGen]_vars

(***************************************************************************)
(* The item-drop registry and the TileMap constructor, called on their     *)
(* own.                                                                    *)
(***************************************************************************)
DropPoints  == {<<Px(16), Px(16)>>, <<Px(26), Px(6)>>}
DropKinds   == {<<"carrot", 1>>, <<"wood", 3>>}
ActorPoints == {<<Px(16), Px(16)>>, <<Px(40), Px(16)>>, <<Px(40) - 1, Px(16)>>}
PickupRadii == {pickupRadius, Px(10)}
Dims        == {0 - MaxDim, -1, 0, MaxDim}

tileVars == <<now, tiles, waterLog, chops, nOps>>

CreateDrop(p, kind) ==
    /\ drops.nextId <= MaxDrops
    /\ drops' = createDrop(drops, p[1], p[2], kind[1], kind[2])
    /\ call' = [op |-> "createDrop", p |-> p]
    /\ UNCHANGED <<tileVars, player, ui, hist, inv>>

CheckPickup(p, radius) ==
    LET r == checkPickup(drops, p[1], p[2], radius) IN
    /\ drops' = r.drops
    /\ call' = [op |-> "checkPickup", p |-> p, radius |-> radius, ret |-> r.pickedUp]
    /\ hist' = [hist EXCEPT !.picked = @ \cup {d.id : d \in r.pickedUp}]
    /\ UNCHANGED <<tileVars, player, ui, inv>>

Construct(width, height) ==
    /\ call' = [op |-> "new TileMap", width |-> width, height |-> height,
                map |-> NewTileMap(width, height)]
    /\ UNCHANGED <<tileVars, gameVars>>

NextUnits ==
    \/ \E p \in DropPoints, kind \in DropKinds : CreateDrop(p, kind)
    \/ \E p \in ActorPoints, radius \in PickupRadii : CheckPickup(p, radius)
    \/ \E width \in Dims, height \in Dims : Construct(width, height)

\* the registry of a new game, on an all-grass region
InitUnits == Init /\ tiles = PerTile(GrassTile)

SpecUnits == InitUnits /\ [][NextUnits]_vars

(***************************************************************************)
(* The game loop: Game.update per frame on a region of the map in play.    *)
(***************************************************************************)
\* Date.now() when the frames modelled start: a tile tilled at StartTime is
\* about to reach its timeout
GameStart == StartTime + tillTimeout

\* a carrot that has grown to 1 and whose watering at StartTime has lapsed
RipeTile ==
    [type |-> PlantedDirt, solid |-> FALSE, tilled |-> TRUE, planted |-> TRUE,
     growth |-> FOne, watered |-> FALSE, cropType |-> "carrot",
     lastWatered |-> StartTime]

\* unplanted dirt tilled at StartTime
StaleTilledTile ==
    [type |-> TilledDirt, solid |-> FALSE, tilled |-> TRUE, tilledTime |-> StartTime]

\* what stands on the fourth tile of the row
Features == {TreeTile, SetField(TreeTile, "treeHealth", 1), RipeTile}

\* the inputs of a frame
Input(ms, move, isSprinting, keys, mouse, item) ==
    [ms |-> ms, move |-> move, isSprinting |-> isSprinting, keys |-> keys,
     mouse |-> mouse, item |-> item]

FarCell  == <<3, 0>>
NearCell == <<1, 0>>

GameInputs ==
    \* walking and standing
    {Input(ms, move, FALSE, {}, FarCell, "none") :
        ms \in GameDeltas, move \in {"none", "left", "right"}}
    \cup {Input(125, "right", TRUE, {}, FarCell, "none")}
    \* menu keys
    \cup {Input(125, "none", FALSE, {k}, FarCell, "none") : k \in {"E", "F", "Escape"}}
    \* the tool on the tile in front
    \cup {Input(ms, "none", FALSE, {"Space"}, FarCell, item) :
            ms \in GameDeltas, item \in Tools}
    \* the tool on the tile under the pointer
    \cup {Input(125, "none", FALSE, {"Mouse"}, cell, item) :
            cell \in {NearCell, FarCell}, item \in Tools}
    \* a click while walking away from the tile
    \cup {Input(375, "left", FALSE, {"Mouse"}, FarCell, "axe")}
    \* key and click in the same frame
    \cup {Input(125, "none", FALSE, {"Space", "Mouse"}, NearCell, "wateringCan")}

GameInit ==
    /\ now = GameStart
    /\ \E feature \in Features :
           tiles = [PerTile(GrassTile) EXCEPT ![0][1] = StaleTilledTile,
                                              ![0][3] = feature]
    /\ call = [op |-> "constructor"]
    /\ waterLog = PerTile(<<>>)
    /\ chops = PerTile(0)
    /\ nOps = 0
    /\ \E start \in PlayerStarts, facing \in {"down", "right"} :
           player = [NewPlayer(start[1], start[2]) EXCEPT !.facing = facing]
    /\ drops = NoDrops
    /\ ui = MenusClosed
    /\ hist = NoHistory
    /\ inv = NewInventory

\* Game.update(deltaTime) of the frame that ends at now + in.ms
Update(in) ==
    LET t  == now + in.ms
        g0 == [tiles |-> tiles, player |-> player, drops |-> drops, ui |-> ui,
               hovered |-> <<>>, busy |-> hist.busy, order |-> <<>>,
               dispatches |-> <<>>, npc |-> <<>>, picked |-> {},
               preSweep |-> tiles, inv |-> inv, preCollect |-> inv]
    IN  /\ t <= GameStart + MaxGameElapsed
        /\ \E g \in {RunFrom("hover", g0, in, t)} :
              /\ now' = t
              /\ tiles' = g.tiles
              /\ player' = g.player
              /\ drops' = g.drops
              /\ ui' = g.ui
              /\ inv' = g.inv
              /\ hist' = [picked |-> hist.picked \cup {d.id : d \in g.picked},
                          busy |-> g.busy]
              /\ call' = [op |-> "update", ms |-> in.ms, order |-> g.order,
                          dispatches |-> g.dispatches, npc |-> g.npc,
                          picked |-> g.picked, hovered |-> g.hovered,
                          preSweep |-> g.preSweep, item |-> in.item,
                          inv |-> inv, preCollect |-> g.preCollect]
        /\ UNCHANGED <<waterLog, chops, nOps>>

NextGame == \E in \in GameInputs : Update(in)

SpecGame == GameInit /\ [][NextGame]_vars

(***************************************************************************)
(* Player.update called on its own: the player walks over a row of tiles   *)
(* with water or grass at its left end and a tree, a stone or grass at its *)
(* right end.                                                              *)
(***************************************************************************)
WalkDeltas == {20, 125}

Directions == {"left", "right", "up", "down"}

LeftEnds  == {GrassTile, WaterTile}
RightEnds == {GrassTile, StoneTile, TreeTile}

\* Vec2.normalize of a diagonal movement vector scales both components by
\* 1 / sqrt(2); the component of the step, rounded down to the 1/16 px of
\* the lengths used here
Diagonal(len) == (len * 7071) \div 10000

WalkInit ==
    /\ now = StartTime
    /\ \E l \in LeftEnds, r \in RightEnds :
           tiles = [PerTile(GrassTile) EXCEPT ![0][0] = l, ![0][Width - 1] = r]
    /\ call = [op |-> "constructor"]
    /\ waterLog = PerTile(<<>>)
    /\ chops = PerTile(0)
    /\ nOps = 0
    /\ \E start \in PlayerStarts, swinging \in BOOLEAN :
           player = [NewPlayer(start[1], start[2]) EXCEPT !.isUsingTool = swinging]
    /\ drops = NoDrops
    /\ ui = MenusClosed
    /\ hist = NoHistory
    /\ inv = NewInventory

Walked(q, dx, dy) ==
    /\ nOps' = nOps + 1
    /\ player' = q
    /\ call' = [op |-> "Player.update", from |-> <<player.x, player.y>>,
                step |-> <<dx, dy>>]
    /\ UNCHANGED <<now, tiles, waterLog, chops, drops, ui, hist, inv>>

\* Player.update with one direction key held, or none
WalkStraight(ms, move, isSprinting) ==
    /\ nOps < MaxWalk
    /\ LET tool == ToolAnimation(player.isUsingTool, player.toolUseTime, FrameDelta(ms))
           len  == StepLength(ms, tool.isUsingTool, isSprinting)
       IN  Walked(PlayerUpdate(player, ms, move, isSprinting, tiles),
                  MoveVec(move)[1] * len, MoveVec(move)[2] * len)

\* Player.update with two direction keys held
WalkDiagonal(ms, sx, sy) ==
    /\ nOps < MaxWalk
    /\ LET tool == ToolAnimation(player.isUsingTool, player.toolUseTime, FrameDelta(ms))
           d    == Diagonal(StepLength(ms, tool.isUsingTool, FALSE))
       IN  Walked(Moved(Animated(player, tool), sx * d, sy * d, tiles), sx * d, sy * d)

NextWalk ==
    \/ \E ms \in WalkDeltas, move \in Directions \cup {"none"} :
           WalkStraight(ms, move, FALSE)
    \/ \E move \in Directions : WalkStraight(125, move, TRUE)
    \/ \E ms \in WalkDeltas, sx \in {-1, 1}, sy \in {-1, 1} : WalkDiagonal(ms, sx, sy)

SpecWalk == WalkInit /\ [][NextWalk]_vars

(***************************************************************************)
(* The InventorySystem called on its own: the calls that InventoryUI       *)
(* (mousedown / mouseup on a slot), the E key, the shop and the blacksmith *)
(* and Player.collectItems make on it.                                     *)
(***************************************************************************)
\* the slots the pointer is pressed and released on
DragSlots == {Slot(-1, 4, TRUE), Slot(-1, 5, TRUE)}
             \cup {Slot(s[1], s[2], FALSE) : s \in GridSlots}

\* the items handed to addItem by handleShopBuy, handleBlacksmithBuyIron and
\* handleBlacksmithBuyGold
Bought == {CarrotSeeds(5), Stackable("iron_ingot", 1, "material"),
           Stackable("gold_ingot", 1, "material")}

\* where the player stands when collectItems is called
CollectPoint == <<Px(16), Px(16)>>

InventoryCall(op, args, after, ret) ==
    /\ nOps < MaxInvOps
    /\ nOps' = nOps + 1
    /\ inv' = after
    /\ call' = [op |-> op, args |-> args, ret |-> ret]

StartDragging(slot) ==
    /\ InventoryCall("startDragging", slot,
                     startDragging(inv, slot.row, slot.col, slot.isHotbar), Null)
    /\ UNCHANGED <<now, tiles, waterLog, chops, player, drops, ui, hist>>

DropItem(slot) ==
    /\ InventoryCall("dropItem", slot,
                     dropItem(inv, slot.row, slot.col, slot.isHotbar), Null)
    /\ UNCHANGED <<now, tiles, waterLog, chops, player, drops, ui, hist>>

CancelDragging ==
    /\ InventoryCall("cancelDragging", Null, cancelDragging(inv), Null)
    /\ UNCHANGED <<now, tiles, waterLog, chops, player, drops, ui, hist>>

ToggleInventory ==
    /\ InventoryCall("toggleInventory", Null, toggleInventory(inv), Null)
    /\ UNCHANGED <<now, tiles, waterLog, chops, player, drops, ui, hist>>

AddItem(item) ==
    /\ InventoryCall("addItem", item, addItem(inv, item).inv,
                     IF addItem(inv, item).added THEN "true" ELSE "false")
    /\ UNCHANGED <<now, tiles, waterLog, chops, player, drops, ui, hist>>

\* Player.collectItems(itemDropManager, audioSystem, inventorySystem)
CollectItems(p) ==
    LET r == checkPickup(drops, p[1], p[2], pickupRadius) IN
    /\ r.pickedUp # {}
    /\ InventoryCall("collectItems", r.pickedUp, collectItems(inv, r.pickedUp).inv, Null)
    /\ drops' = r.drops
    /\ hist' = [hist EXCEPT !.picked = @ \cup {d.id : d \in r.pickedUp}]
    /\ UNCHANGED <<now, tiles, waterLog, chops, player, ui>>

NextInventory ==
    \/ \E p \in DropPoints, kind \in DropKinds : CreateDrop(p, kind)
    \/ CollectItems(CollectPoint)
    \/ \E slot \in DragSlots : StartDragging(slot)
    \/ \E slot \in DragSlots : DropItem(slot)
    \/ CancelDragging
    \/ ToggleInventory
    \/ \E item \in Bought : AddItem(item)

SpecInventory == InitUnits /\ [][NextInventory]_vars

(***************************************************************************)
(* Properties.                                                             *)
(***************************************************************************)
\* the step is a call of the tile operation op at point p
IsCall(op, p) == nOps' = nOps + 1 /\ call'.op = op /\ call'.p = p

\* the step is a growth sweep
IsSweep == now' # now /\ call'.op = "updateCrops"

\* the step leaves every tile but the one under p as it was
OthersUnchanged(p) ==
    \A c \in Cells \ {CellOf(p)} : TileOf(tiles', c) = TileOf(tiles, c)

NoCrop(t) ==
    ~TruthyBool(t, "planted") /\ ~Has(t, "cropType") /\ ~Has(t, "growth")

\* C1: harvestCrop succeeds if and only if the target tile is PlantedDirt
\* with growth >= 1.0; on success it returns the tile's crop type and the
\* tile becomes TilledDirt with watered = false and no crop; otherwise it
\* returns null and the tile is left unchanged.
C1_HarvestContract ==
    [][\A p \in Points : IsCall("harvestCrop", p) =>
          LET t == At(tiles, p)
              u == At(tiles', p)
          IN  IF InGrid(p) /\ t.type = PlantedDirt /\ FLeq(FOne, t.growth)
              THEN /\ call'.ret = t.cropType
                   /\ u.type = TilledDirt
                   /\ Has(u, "watered") /\ u.watered = FALSE
                   /\ NoCrop(u)
                   /\ OthersUnchanged(p)
              ELSE /\ call'.ret = Null
                   /\ tiles' = tiles]_vars

\* a harvest has just succeeded on a wheat crop: wheat was returned and the
\* tile is tilled dirt again
C1_Witness ==
    /\ call.op = "harvestCrop" /\ call.ret = "wheat"
    /\ At(tiles, call.p).type = TilledDirt
    /\ At(tiles, call.p).watered = FALSE

\* C2: tillTile succeeds exactly when the target tile is Grass or Dirt,
\* turning it into TilledDirt with tilledTime set to the current time; from
\* every other kind it returns false and leaves the tile unchanged.
C2_TillContract ==
    [][\A p \in Points : IsCall("tillTile", p) =>
          LET t == At(tiles, p)
              u == At(tiles', p)
          IN  IF InGrid(p) /\ t.type \in {Grass, Dirt}
              THEN /\ call'.ret = TRUE
                   /\ u.type = TilledDirt
                   /\ Has(u, "tilledTime") /\ u.tilledTime = now
                   /\ OthersUnchanged(p)
              ELSE /\ InGrid(p) => t.type \in {Stone, Water, TilledDirt, PlantedDirt, Tree}
                   /\ call'.ret = FALSE
                   /\ tiles' = tiles]_vars

\* a dirt tile has just been tilled, after the clock has advanced
C2_Witness ==
    /\ call.op = "tillTile" /\ call.ret = TRUE
    /\ At(tiles, call.p).type = TilledDirt
    /\ At(tiles, call.p).tilledTime = now
    /\ now > StartTime

\* C3: plantSeed succeeds exactly when the target tile is TilledDirt with
\* planted = false; the tile then becomes PlantedDirt with planted = true,
\* growth = 0 and watered = false (even if the tilled soil had been watered);
\* in every other case it returns false and leaves the tile unchanged, so a
\* planted tile is never planted a second time.
C3_PlantContract ==
    [][\A p \in Points : IsCall("plantSeed", p) =>
          LET t == At(tiles, p)
              u == At(tiles', p)
          IN  IF InGrid(p) /\ t.type = TilledDirt /\ ~TruthyBool(t, "planted")
              THEN /\ call'.ret = TRUE
                   /\ u.type = PlantedDirt
                   /\ Has(u, "planted") /\ u.planted = TRUE
                   /\ Has(u, "growth") /\ u.growth = FZero
                   /\ Has(u, "watered") /\ u.watered = FALSE
                   /\ u.cropType \in CropTypes
                   /\ OthersUnchanged(p)
              ELSE /\ call'.ret = FALSE
                   /\ tiles' = tiles]_vars

\* a seed has been refused on a tile that carries a crop already
C3_Witness ==
    /\ call.op = "plantSeed" /\ call.ret = FALSE
    /\ InGrid(call.p)
    /\ At(tiles, call.p).type = PlantedDirt

\* C4: waterTile succeeds exactly when the target tile is TilledDirt or
\* PlantedDirt, setting watered = true and lastWatered to the current time
\* and leaving every other property (kind, growth, cropType) as it was; on
\* every other kind it returns false and changes nothing.
C4_WaterContract ==
    [][\A p \in Points : IsCall("waterTile", p) =>
          LET t == At(tiles, p)
              u == At(tiles', p)
          IN  IF InGrid(p) /\ t.type \in {TilledDirt, PlantedDirt}
              THEN /\ call'.ret = TRUE
                   /\ Has(u, "watered") /\ u.watered = TRUE
                   /\ Has(u, "lastWatered") /\ u.lastWatered = now
                   /\ DOMAIN u = DOMAIN t \cup {"watered", "lastWatered"}
                   /\ \A f \in DOMAIN t \ {"watered", "lastWatered"} : u[f] = t[f]
                   /\ OthersUnchanged(p)
              ELSE /\ call'.ret = FALSE
                   /\ tiles' = tiles]_vars

\* a growing crop has just been watered again
C4_Witness ==
    /\ call.op = "waterTile" /\ call.ret = TRUE
    /\ At(tiles, call.p).type = PlantedDirt
    /\ FLess(FZero, At(tiles, call.p).growth)
    /\ At(tiles, call.p).lastWatered = now

\* C5: on a Tree tile with treeHealth = 3 the first two chopTree calls return
\* false ("not felled") and leave a Tree with treeHealth 2, then 1; the third
\* call returns true ("felled") and the tile is no longer a Tree; chopTree on
\* a tile that is not a Tree returns false and changes nothing.
C5_ChopContract ==
    [][\A p \in Points : IsCall("chopTree", p) =>
          LET t == At(tiles, p)
              u == At(tiles', p)
              k == IF InGrid(p) THEN TileOf(chops, CellOf(p)) ELSE 0
          IN  IF InGrid(p) /\ t.type = Tree
              THEN /\ k \in 0 .. 2
                   /\ k = 0 => t.treeHealth = 3
                   /\ k < 2 => /\ call'.ret = FALSE
                               /\ u.type = Tree
                               /\ u.treeHealth = 2 - k
                   /\ k = 2 => /\ call'.ret = TRUE
                               /\ u.type # Tree
                   /\ OthersUnchanged(p)
              ELSE /\ call'.ret = FALSE
                   /\ tiles' = tiles]_vars

\* the third chop has felled the tree
C5_Witness ==
    /\ call.op = "chopTree" /\ call.ret = TRUE
    /\ TileOf(chops, CellOf(call.p)) = 3
    /\ At(tiles, call.p).type # Tree

Last(q) == q[Len(q)]

\* C6: in every reachable state, after any sequence of tile operations and
\* growth sweeps, every tile that carries a growth value has
\* 0 <= growth <= 1.
C6_GrowthRange ==
    \A c \in Cells :
        LET t == TileOf(tiles, c)
        IN  Has(t, "growth") => FLeq(FZero, t.growth) /\ FLeq(t.growth, FOne)

\* a crop watered twice has been swept for more than ten seconds since its
\* first watering and stands at growth 1
C6_Witness ==
    \E c \in Cells :
        LET t   == TileOf(tiles, c)
            log == TileOf(waterLog, c)
        IN  /\ call.op = "updateCrops"
            /\ t.type = PlantedDirt /\ t.growth = FOne
            /\ Len(log) = 2
            /\ log[2] - log[1] <= 5000
            /\ now - log[1] > 10000

\* C7: a growth sweep changes the growth of a PlantedDirt tile only if the
\* tile's watered flag is set when the sweep visits it, and then only upward;
\* while a tile stays PlantedDirt its growth never decreases, also in the
\* sweep that clears the watered flag.
C7_GrowthOnlyWatered ==
    [][\A c \in Cells :
          LET t == TileOf(tiles, c)
              u == TileOf(tiles', c)
          IN  /\ (IsSweep /\ t.type = PlantedDirt) =>
                    /\ u.type = PlantedDirt
                    /\ u.growth # t.growth => TruthyBool(t, "watered")
              /\ (t.type = PlantedDirt /\ u.type = PlantedDirt) =>
                    /\ FLeq(t.growth, u.growth)
                    /\ u.growth # t.growth => IsSweep]_vars

\* a sweep has cleared the watered flag of a half-grown crop, which keeps its
\* growth
C7_Witness ==
    \E c \in Cells :
        LET t == TileOf(tiles, c)
        IN  /\ call.op = "updateCrops"
            /\ t.type = PlantedDirt
            /\ Has(t, "lastWatered") /\ t.watered = FALSE
            /\ now - t.lastWatered > 5000
            /\ FLess(FZero, t.growth) /\ FLess(t.growth, FOne)

\* C8 as stated: for a PlantedDirt tile with watered = true, a growth sweep
\* run when at least 5 s have elapsed since the last watering clears watered,
\* and a sweep run when less than 5 s have elapsed leaves it set; watering
\* again restarts the 5 s; the clearing does not depend on growth.
C8_Original ==
    [][IsSweep =>
         \A c \in Cells :
            LET t == TileOf(tiles, c)
                u == TileOf(tiles', c)
                w == Last(TileOf(waterLog, c))
            IN  (t.type = PlantedDirt /\ TruthyBool(t, "watered")) =>
                    /\ now' - w >= 5000 => u.watered = FALSE
                    /\ now' - w <  5000 => u.watered = TRUE]_vars

\* C8 as amended: the sweep clears watered when more than 5 s have elapsed
\* since the last watering and leaves it set when at most 5 s have elapsed;
\* watering again restarts the 5 s; the clearing does not depend on growth.
C8_DryOut ==
    [][IsSweep =>
         \A c \in Cells :
            LET t == TileOf(tiles, c)
                u == TileOf(tiles', c)
                w == Last(TileOf(waterLog, c))
            IN  (t.type = PlantedDirt /\ TruthyBool(t, "watered")) =>
                    /\ u.type = PlantedDirt
                    /\ now' - w >  5000 => u.watered = FALSE
                    /\ now' - w <= 5000 => u.watered = TRUE]_vars

\* a crop watered a second time within 5 s of the first has been dried by a
\* sweep more than 5 s after the second watering, before it was mature
C8_Witness ==
    \E c \in Cells :
        LET t   == TileOf(tiles, c)
            log == TileOf(waterLog, c)
        IN  /\ call.op = "updateCrops"
            /\ t.type = PlantedDirt /\ t.watered = FALSE
            /\ Len(log) = 2 /\ log[2] - log[1] < 5000 /\ log[2] > log[1]
            /\ now - log[2] > 5000
            /\ FLess(t.growth, FOne)

\* C9 as stated: for a tile tilled at time T and not planted, a growth sweep
\* run when at least 30 s have elapsed since T reverts it to Grass, and no
\* sweep run when less than 30 s have elapsed reverts it.
C9_Original ==
    [][IsSweep =>
         \A c \in Cells :
            LET t == TileOf(tiles, c)
                u == TileOf(tiles', c)
            IN  (t.type = TilledDirt /\ ~TruthyBool(t, "planted") /\ Has(t, "tilledTime")) =>
                    /\ now' - t.tilledTime >= 30000 => u.type = Grass
                    /\ now' - t.tilledTime <  30000 => u = t]_vars

\* C9 as amended: the sweep reverts the tile to Grass when more than 30 s
\* have elapsed since T, and no sweep run when at most 30 s have elapsed
\* reverts it.
C9_TillTimeout ==
    [][IsSweep =>
         \A c \in Cells :
            LET t == TileOf(tiles, c)
                u == TileOf(tiles', c)
            IN  (t.type = TilledDirt /\ ~TruthyBool(t, "planted") /\ Has(t, "tilledTime")) =>
                    /\ now' - t.tilledTime >  30000 => u = GrassTile
                    /\ now' - t.tilledTime <= 30000 => u = t]_vars

\* a sweep has just reverted a tilled tile
C9_Witness ==
    /\ call.op = "updateCrops"
    /\ call.reverted # {}
    /\ \A c \in call.reverted : TileOf(tiles, c) = GrassTile

\* the crop on cell c was watered once, 5 s ago
AfterFirstWatering(c) ==
    LET log == TileOf(waterLog, c)
    IN  /\ TileOf(tiles, c).type = PlantedDirt
        /\ Len(log) = 1
        /\ now = log[1] + 5000

\* the crop on cell c was watered twice, 5 s apart, the second time 5 s ago
AfterSecondWatering(c) ==
    LET log == TileOf(waterLog, c)
    IN  /\ TileOf(tiles, c).type = PlantedDirt
        /\ Len(log) = 2
        /\ log[2] = log[1] + 5000
        /\ now = log[2] + 5000

\* C10: crop life cycle: till then plant gives growth = 0; after one watering
\* followed by sweeps totalling 5 s the growth is 0.5 and harvest fails,
\* leaving the tile PlantedDirt; after a second watering followed by sweeps
\* totalling 5 more seconds the growth is 1.0 and harvest succeeds, returning
\* the crop type and leaving the tile TilledDirt with watered = false.
C10_LifeCycle ==
    /\ [](\A c \in Cells :
            /\ AfterFirstWatering(c)  => TileOf(tiles, c).growth = FHalf
            /\ AfterSecondWatering(c) => TileOf(tiles, c).growth = FOne)
    /\ [][\A p \in Points :
            LET t == At(tiles, p)
                u == At(tiles', p)
            IN  /\ (IsCall("plantSeed", p) /\ call'.ret = TRUE) => u.growth = FZero
                /\ (IsCall("harvestCrop", p) /\ InGrid(p)) =>
                      /\ AfterFirstWatering(CellOf(p)) =>
                            call'.ret = Null /\ u.type = PlantedDirt
                      /\ AfterSecondWatering(CellOf(p)) =>
                            /\ call'.ret = t.cropType
                            /\ u.type = TilledDirt /\ u.watered = FALSE]_vars

\* n successive frames of ms milliseconds each, starting at time t
RECURSIVE SmallSweeps(_, _, _, _)
SmallSweeps(ts, t, ms, n) ==
    IF n = 0
    THEN ts
    ELSE SmallSweeps(updateCrops(ts, FrameDelta(ms), t + ms), t + ms, ms, n - 1)

\* C11: the tile state reached after a total elapsed time E does not depend
\* on how E is split into ticks: for a PlantedDirt tile watered once, one
\* sweep with delta 5 s gives the same growth and the same watered flag as
\* five sweeps with delta 1 s over the same 5 s.
C11_SplitIndependent ==
    [][(IsSweep /\ now' - now = 5000) =>
         \A c \in Cells :
            LET t    == TileOf(tiles, c)
                one  == TileOf(tiles', c)
                many == TileOf(SmallSweeps(tiles, now, 1000, 5), c)
            IN  (t.type = PlantedDirt /\ Len(TileOf(waterLog, c)) = 1) =>
                    /\ one.growth = many.growth
                    /\ one.watered = many.watered]_vars

\* the value by which an operation reports that it did nothing
Declined(op, before, ret) ==
    CASE op = "harvestCrop" -> ret = Null
      [] op = "chopTree"    -> ret = FALSE /\ (before = NullTile \/ before.type # Tree)
      [] OTHER              -> ret = FALSE

TileOps == {"tillTile", "plantSeed", "waterTile", "harvestCrop", "chopTree"}

\* C15: each of till, plantSeed, water, harvest and chopTree, called with a
\* world coordinate outside the grid (negative, or at or beyond
\* width * tileSize), returns its failure value and leaves every tile
\* unchanged; and any declined tile operation (false or null; for chopTree,
\* false on a tile that is no Tree) changes no tile at all.
C15_DeclinedChangesNothing ==
    [][\A p \in Points, op \in TileOps :
          IsCall(op, p) =>
             /\ ~InGrid(p) => /\ call'.ret = IF op = "harvestCrop" THEN Null ELSE FALSE
                              /\ tiles' = tiles
             /\ Declined(op, At(tiles, p), call'.ret) => tiles' = tiles]_vars

\* plantSeed was called at the first point right of the grid while the grid
\* held tilled dirt, and declined
C15_Witness ==
    /\ call.op = "plantSeed"
    /\ call.p = <<Width * tileSize, Centre(0)>>
    /\ call.ret = FALSE
    /\ \E c \in Cells : TileOf(tiles, c).type = TilledDirt

\* C12: checkPickup(actor, R) returns and removes exactly the drops whose
\* distance to the actor is strictly less than R (a drop at distance exactly
\* R is kept); every other drop stays in the registry; and a drop returned by
\* one call is never returned by any later call.
C12_PickupExact ==
    [][call'.op = "checkPickup" /\ call' # call =>
          LET a      == call'.p
              R      == call'.radius
              inside == {d \in drops.items : DistSq(d.x, d.y, a[1], a[2]) < R * R}
          IN  /\ call'.ret = inside
              /\ drops'.items = drops.items \ inside
              /\ \A d \in drops.items : DistSq(d.x, d.y, a[1], a[2]) = R * R =>
                                           d \in drops'.items
              /\ \A d \in call'.ret : d.id \notin hist.picked]_vars

\* a call has returned a drop, has kept a drop that lies at distance exactly
\* R, and drops had been returned by earlier calls
C12_Witness ==
    /\ call.op = "checkPickup"
    /\ call.ret # {}
    /\ \E d \in drops.items : DistSq(d.x, d.y, call.p[1], call.p[2]) = Sq(call.radius)
    /\ hist.picked # {d.id : d \in call.ret}

\* C16: constructing the world grid with a non-positive width or height
\* fails immediately at construction, instead of producing a usable (empty)
\* grid.
C16_ConstructorRejects ==
    (call.op = "new TileMap" /\ (call.width <= 0 \/ call.height <= 0)) => call.map.threw

\* the record of the tick that led to the state
Ticked == call.op = "update"

Dispatches == IF Ticked THEN {call.dispatches[i] : i \in DOMAIN call.dispatches} ELSE {}

\* the gate as one dispatch record shows it
GateHeld(d) ==
    /\ (d.seen.busy # -1 /\ d.seen.busy < 300) => ~d.passed
    /\ ~d.passed => /\ d.op = "none"
                    /\ d.created = {}
                    /\ d.isUsingTool
                    /\ d.toolUseTime = d.seen.toolUseTime
    /\ d.passed => (d.isUsingTool /\ d.toolUseTime = FZero)

\* C13: a dispatch attempted less than 0.3 s of Player.update time after the
\* dispatch that started the tool animation is suppressed: it reaches no tile
\* operation, creates no drop and leaves the animation running where it was
\* (a tick with suppressed dispatches only hands the tiles to the sweep as it
\* found them and creates no drop); a dispatch that passes the gate starts
\* the animation at 0, whether its tile operation succeeds or not.
C13_CooldownGate ==
    [][call'.op = "update" =>
          /\ \A i \in DOMAIN call'.dispatches : GateHeld(call'.dispatches[i])
          /\ (\A i \in DOMAIN call'.dispatches : ~call'.dispatches[i].passed)
                 => (call'.preSweep = tiles /\ drops'.nextId = drops.nextId)]_vars

\* a dispatch 0.25 s after the one that started the animation was suppressed
C13_Witness ==
    \E d \in Dispatches : ~d.passed /\ d.seen.busy = 250 /\ d.toolUseTime = FDivInt(FromInt(1), 4)

\* the drops of a harvest at target: the crop there, two seeds beside it
HarvestDrops(ds, target) ==
    {d \in ds : d.itemType = "carrot" /\ d.quantity = 1
                /\ d.x = target[1] /\ d.y = target[2]}
    \cup {d \in ds : d.itemType = "seeds" /\ d.quantity = 2
                     /\ d.x = target[1] + Px(10) /\ d.y = target[2] - Px(10)}

\* the drops of a felled tree at target: three wood there, two beside it
FellingDrops(ds, target) ==
    {d \in ds : d.itemType = "wood" /\ d.quantity = 3
                /\ d.x = target[1] /\ d.y = target[2]}
    \cup {d \in ds : d.itemType = "wood" /\ d.quantity = 2
                     /\ d.x = target[1] - Px(10) /\ d.y = target[2] + Px(10)}

\* C14: a dispatch creates drops in two cases only: a successful harvest
\* creates the crop drop at the target and the seed drop at its offset, a
\* chop that fells the tree creates the two wood drops; every other dispatch
\* creates none.
C14_DropsOfDispatch ==
    \A d \in Dispatches :
        IF d.op = "harvestCrop" /\ d.ok
        THEN Cardinality(d.created) = 2 /\ HarvestDrops(d.created, d.seen.target) = d.created
        ELSE IF d.op = "chopTree" /\ d.ok
             THEN Cardinality(d.created) = 2
                  /\ FellingDrops(d.created, d.seen.target) = d.created
             ELSE d.created = {}

\* a tree was felled by a dispatch that left its two drops
C14_Witness ==
    \E d \in Dispatches : d.op = "chopTree" /\ d.ok /\ Cardinality(d.created) = 2

\* the dispatches of the tick that reached a tile operation from a click
ClickOps == {d \in Dispatches : d.seen.via = "interactAt" /\ d.op # "none"}

\* C17: no click reaches a tile operation while the shop, the blacksmith
\* menu or the inventory is open
C17_NoClickUnderMenu ==
    \A d \in ClickOps :
        ~d.seen.ui.shop /\ ~d.seen.ui.blacksmith /\ ~d.seen.ui.inventory

\* C18: when a click reaches a tile operation, the player is at that moment
\* within the reach distance (64 px) of the centre of the tile
C18_ClickWithinReach ==
    \A d \in ClickOps : d.seen.distSq <= Sq(reachDistance)

\* the NPC that an interaction of the E / F keys is with
NpcOf(kind) == IF kind = "blacksmith" THEN blacksmithPos ELSE shopkeeperPos

\* the NPC is not behind the player: the direction to it is within 90
\* degrees of the facing
OnFacingSide(p, npcPos) ==
    CASE p.facing = "right" -> npcPos[1] >= p.x
      [] p.facing = "left"  -> npcPos[1] <= p.x
      [] p.facing = "down"  -> npcPos[2] >= p.y
      [] p.facing = "up"    -> npcPos[2] <= p.y

\* C19: an NPC interaction (talk, shop or blacksmith menu toggled) takes
\* place only with the player within 48 px of the NPC and the NPC on the
\* side the player faces
C19_NpcNeedsFacing ==
    Ticked =>
        \A i \in DOMAIN call.npc :
            /\ isNearPlayer(NpcOf(call.npc[i]), player)
            /\ OnFacingSide(player, NpcOf(call.npc[i]))

\* the place of a step in the order of the tick
Place(step) == CHOOSE i \in DOMAIN call.order : call.order[i] = step

\* the tile under the target of a dispatch
TargetTile(d) ==
    getTileAt(tiles, TileIndex(FloorPx(d.seen.target[1])), TileIndex(FloorPx(d.seen.target[2])))

\* a tile tilled or harvested by the tick is still tilled after its sweep,
\* a crop watered by the tick is still watered
KeptBySweep(d) ==
    CASE d.op = "tillTile" ->
             TargetTile(d).type = TilledDirt /\ TargetTile(d).tilledTime = now
      [] d.op = "harvestCrop" ->
             TargetTile(d).type = TilledDirt
      [] d.op = "waterTile" ->
             TargetTile(d).type = PlantedDirt =>
                 (TargetTile(d).watered = TRUE /\ TargetTile(d).lastWatered = now)
      [] OTHER -> TRUE

\* a tile tilled, watered or harvested by the tick is there after its sweep
\* as the dispatch left it
UntouchedBySweep(d) ==
    /\ TargetTile(d) # NullTile
    /\ TargetTile(d).type \in {TilledDirt, PlantedDirt}
    /\ d.op = "waterTile" => TargetTile(d).watered = TRUE

\* the statement of C20 as the specification has it: dispatch, then the
\* sweep, then drop update and pickup, and no tile tilled, watered or
\* harvested in the tick is reverted or dried by its sweep
C20_SweepBeforePickup ==
    Ticked =>
        /\ Place("interact") < Place("updateCrops")
        /\ Place("interactAt") < Place("updateCrops")
        /\ Place("updateCrops") < Place("itemDropManager.update")
        /\ Place("updateCrops") < Place("collectItems")
        /\ \A d \in Dispatches :
               (d.ok /\ d.op \in {"tillTile", "waterTile", "harvestCrop"})
                   => UntouchedBySweep(d)

\* C20: in every tick the steps run in the order dispatch (key, then click),
\* pickup (collectItems), growth sweep (updateCrops), drop update
\* (itemDropManager.update); a tile tilled or harvested in the tick is not
\* reverted by the tick's sweep and a crop watered in the tick is not dried
\* by it.
C20_TickOrder ==
    Ticked =>
        /\ Place("interact") < Place("interactAt")
        /\ Place("interactAt") < Place("collectItems")
        /\ Place("collectItems") < Place("updateCrops")
        /\ Place("updateCrops") < Place("itemDropManager.update")
        /\ \A d \in Dispatches : d.ok => KeptBySweep(d)

\* a tick tilled a tile and picked a drop up, and the tile is tilled after
\* the sweep
C20_Witness ==
    /\ \E d \in Dispatches : d.ok /\ d.op = "tillTile" /\ TargetTile(d).type = TilledDirt
    /\ hist.picked # {}

\* tilled dirt without a crop
UnplantedTilled(t) == t.type = TilledDirt /\ ~TruthyBool(t, "planted")

\* C21: no unplanted tilled tile stays tilled for ever.  The player stops
\* acting ActiveFor ms after the start, so a tile that is tilled and unplanted
\* has been so since then at the latest: a sweep run more than the till
\* timeout (30 s) later finds no such tile left.
C21_TilledSoilReverts ==
    (call.op = "updateCrops" /\ now - (StartTime + ActiveFor) > tillTimeout) =>
        \A c \in Cells : ~UnplantedTilled(TileOf(tiles, c))

\* C22: after a sweep, no unplanted tilled tile is still watered when its
\* last watering is more than the water duration (5 s) old
C22_SoilDriesOut ==
    call.op = "updateCrops" =>
        \A c \in Cells :
            LET t == TileOf(tiles, c)
            IN  (UnplantedTilled(t) /\ TruthyTime(t, "lastWatered")
                 /\ now - t.lastWatered > waterDuration)
                    => ~TruthyBool(t, "watered")

\* the changes of kind of the tile state machine, from tile t to tile u in a
\* step that made the call op
KindChange(t, u, op) ==
    \/ u.type = t.type
    \/ t.type \in {Grass, Dirt} /\ u.type = TilledDirt /\ op = "tillTile"
    \/ t.type = TilledDirt /\ u.type = PlantedDirt /\ op = "plantSeed"
    \/ /\ t.type = PlantedDirt /\ u.type = TilledDirt /\ op = "harvestCrop"
       /\ FLeq(FOne, t.growth)
    \/ UnplantedTilled(t) /\ u.type = Grass /\ op = "updateCrops"
    \/ t.type = Tree /\ u.type # Tree /\ op = "chopTree"

\* C23: every change of a tile's kind is till (Grass or Dirt to TilledDirt),
\* plant (TilledDirt to PlantedDirt), harvest of a grown crop (PlantedDirt to
\* TilledDirt), timeout (unplanted TilledDirt to Grass) or the final chop
\* (Tree to a kind that is not Tree), made by that operation; Water and Stone
\* never change kind.
C23_KindTransitions ==
    [][\A c \in Cells :
          /\ KindChange(TileOf(tiles, c), TileOf(tiles', c), call'.op)
          /\ TileOf(tiles, c).type \in {Water, Stone}
                 => TileOf(tiles', c).type = TileOf(tiles, c).type]_vars

\* a crop that was never harvested is still planted after the sweeps of more
\* than the till timeout, next to a tile that reverted
C23_Witness ==
    /\ call.op = "updateCrops"
    /\ now - StartTime > tillTimeout
    /\ \E c \in Cells : TileOf(tiles, c).type = PlantedDirt
    /\ call.reverted # {}

\* the hit counter of a tree
TreeHealthy(t) == t.type = Tree => (Has(t, "treeHealth") /\ t.treeHealth \in 1..3)

\* C24: a Tree tile has treeHealth in 1..3 in every state, no step raises
\* it, and a tile that is not a Tree never becomes one
C24_TreeHealth ==
    [][\A c \in Cells :
          LET t == TileOf(tiles, c)
              u == TileOf(tiles', c)
          IN  /\ TreeHealthy(t) /\ TreeHealthy(u)
              /\ (t.type = Tree /\ u.type = Tree) => u.treeHealth <= t.treeHealth
              /\ t.type # Tree => u.type # Tree]_vars

\* a tree hit twice stands with one hit left
C24_Witness ==
    /\ call.op = "chopTree" /\ call.ret = FALSE
    /\ InGrid(call.p)
    /\ At(tiles, call.p).type = Tree
    /\ At(tiles, call.p).treeHealth = 1

\* C25: a tile is solid exactly when it is Water, Stone or Tree
C25_SolidKinds ==
    \A c \in Cells :
        TileOf(tiles, c).solid = (TileOf(tiles, c).type \in {Water, Stone, Tree})

\* a felled tree has left a tile that is not solid, and a tile is tilled
C25_Witness ==
    /\ call.op = "tillTile" /\ call.ret = TRUE
    /\ At(tiles, call.p).solid = FALSE
    /\ \E c \in Cells : TileOf(chops, c) = 3 /\ TileOf(tiles, c) = GrassTile

\* no tree of the generated grid has a tree among its eight neighbours
Spaced(ts) ==
    \A x \in GenCols, y \in GenRows :
        ts[y][x].type = Tree =>
            \A dy \in -1 .. 1, dx \in -1 .. 1 :
                (<<dx, dy>> # <<0, 0>> /\ x + dx \in GenCols /\ y + dy \in GenRows)
                    => ts[y + dy][x + dx].type # Tree

\* C26: whatever the generator draws, no Tree has a Tree among its eight
\* neighbours, during generation and afterwards; a tree is placed only on a
\* cell that is Grass at that moment, and every cell of the river is still
\* Water after the stone, dirt and tree passes.
C26_TreesSpaced ==
    [][/\ Spaced(tiles')
       /\ \A c \in RiverCells : tiles'[c[2]][c[1]] = WaterTile
       /\ \A x \in GenCols, y \in GenRows :
              (tiles'[y][x].type = Tree /\ tiles[y][x].type # Tree)
                  => tiles[y][x].type = Grass]_vars

\* the generator has placed two trees and declined a third draw
C26_Witness ==
    /\ call.op = "generateTrees" /\ call.i = TreeCount
    /\ Cardinality({c \in GenCols \X GenRows : tiles[c[2]][c[1]].type = Tree}) = 2
    /\ \E c \in GenCols \X GenRows : tiles[c[2]][c[1]].type = Stone
    /\ \E c \in GenCols \X GenRows : tiles[c[2]][c[1]].type = Dirt

\* the four corners of the player's 24 x 24 box around <<x, y>>
Corners(x, y) == {x - halfSize, x + halfSize} \X {y - halfSize, y + halfSize}

\* the corner lies on a tile of the grid that is not Water, Stone or Tree
OnOpenTile(ts, c) ==
    LET tx == FloorPx(c[1]) \div tileSize
        ty == FloorPx(c[2]) \div tileSize
    IN  /\ tx \in Cols /\ ty \in Rows
        /\ ts[ty][tx].type \notin {Water, Stone, Tree}

Blocked(ts, x, y) == \E c \in Corners(x, y) : ~OnOpenTile(ts, c)

\* C27: after every Player.update (any direction, also diagonal, walking,
\* sprinting or slowed by a tool, any frame length) none of the four corners
\* of the player's box lies on a solid tile or outside the grid, for a
\* player who started at the centre of a walkable tile; a step along x that
\* would put a corner there leaves x as it was, and so does a step along y,
\* tested at the x the call has settled on.
C27_CollisionFree ==
    [][call'.op = "Player.update" =>
          /\ ~Blocked(tiles', player'.x, player'.y)
          /\ Blocked(tiles, call'.from[1] + call'.step[1], call'.from[2])
                => player'.x = call'.from[1]
          /\ Blocked(tiles, player'.x, call'.from[2] + call'.step[2])
                => player'.y = call'.from[2]
          /\ ~Blocked(tiles, call'.from[1] + call'.step[1], call'.from[2])
                => player'.x = call'.from[1] + call'.step[1]
          /\ ~Blocked(tiles, player'.x, call'.from[2] + call'.step[2])
                => player'.y = call'.from[2] + call'.step[2]]_vars

\* a diagonal step whose x part was refused by the tree at the end of the row
\* and whose y part was taken
C27_Witness ==
    /\ call.op = "Player.update"
    /\ call.step[1] > 0 /\ call.step[2] # 0
    /\ tiles[0][Width - 1].type = Tree
    /\ player.x = call.from[1]
    /\ player.y = call.from[2] + call.step[2]

\* the seeds of the inventory
SeedCount(i) == getItemCount(i, "carrot_seeds")

\* a tile that was unplanted TilledDirt when the tick began is PlantedDirt
\* after the dispatches of the tick
PlantedInTick(before, after) ==
    \E c \in Cells : /\ TileOf(before, c).type = TilledDirt
                     /\ TileOf(after, c).type = PlantedDirt

\* C29: in a tick of Game.update in which seeds are selected and a dispatch
\* is attempted (Space key or mouse click), the seed stack has lost exactly
\* one seed after the dispatches if the tick turned a TilledDirt tile into
\* PlantedDirt, and is unchanged otherwise.
C29_SeedPerPlanting ==
    [][(call'.op = "update" /\ call'.item = "seeds" /\ call'.dispatches # <<>>)
          => SeedCount(call'.preCollect)
               = SeedCount(inv) - (IF PlantedInTick(tiles, call'.preSweep) THEN 1 ELSE 0)]_vars

\* the kinds of item of the game
ItemIds == {"hoe", "axe", "watering_can", "scythe", "carrot_seeds", "carrot",
            "wood", "iron_ingot", "gold_ingot"}

\* the inventory id of a kind of drop
DropItemId(itemType) == IF itemType = "seeds" THEN "carrot_seeds" ELSE itemType

\* the quantities of a set of drops, added up
RECURSIVE DropQuantity(_)
DropQuantity(ds) ==
    IF ds = {} THEN 0
    ELSE LET d == CHOOSE d \in ds : TRUE
         IN  d.quantity + DropQuantity(ds \ {d})

\* C28: Player.collectItems conserves items: the quantity of every drop it
\* removes from the registry is added to the inventory, whatever the
\* inventory holds, also when its grid has no free slot.
C28_PickupConserves ==
    [][call'.op = "collectItems" =>
          \A itemType \in {"seeds", "carrot", "wood"} :
              getItemCount(inv', DropItemId(itemType))
                = getItemCount(inv, DropItemId(itemType))
                  + DropQuantity({d \in drops.items \ drops'.items :
                                     d.itemType = itemType})]_vars

\* what the player holds of a kind of item: in the slots and on the pointer
Holdings(i, id) ==
    getItemCount(i, id)
    + (IF i.draggedItem # NoItem /\ i.draggedItem.id = id
       THEN i.draggedItem.quantity ELSE 0)

\* C30: startDragging, dropItem, cancelDragging and toggleInventory, in any
\* order, leave what the player holds of every kind of item as it was (a
\* drag moves or swaps items, cancelling it puts the item back), and
\* addItem adds exactly the quantity it reports added, also when a second
\* drag starts before the first is dropped and when addItem fills the slot
\* the drag came from.
C30_DraggingConserves ==
    [][call'.op \in {"startDragging", "dropItem", "cancelDragging",
                     "toggleInventory", "addItem"} =>
          \A id \in ItemIds :
              Holdings(inv', id)
                = Holdings(inv, id)
                  + (IF call'.op = "addItem" /\ call'.ret = "true" /\ call'.args.id = id
                     THEN call'.args.quantity ELSE 0)]_vars

====
